---------------------------- MODULE Spec2Model ----------------------------
(***************************************************************************)
(* Model of wy (alainesp/wy): the C++ wrapper around wyhash and wyrand.    *)
(*                                                                         *)
(* A 64-bit word is the sequence of its 8 bytes, least significant first,  *)
(* so that every operation keeps the full width of uint64_t.  A natural    *)
(* number of any size is a sequence of base-256 limbs in the same order.   *)
(* A double is a record [s, m, e] standing for (-1)^s * m * 2^e with m a   *)
(* 53-bit significand (7 limbs), rounded to nearest-even after every       *)
(* operation as IEEE-754 binary64 does in its normal range.                *)
(***************************************************************************)
EXTENDS Integers, Sequences, FiniteSets, TLC

VARIABLES
    state,      \* wy::rand::state of the generator under test
    seed0,      \* the value the generator was constructed with
    ndraws,     \* raw draws accounted for since construction
    pc,         \* "ready" | "aborted" (an assertion fired)
    ret,        \* what the last call returned
    vec,        \* the caller's std::vector<uint8_t> handed to generate_stream
    NDEBUG,     \* build: assert() compiled out
    LITTLE,     \* host: WYHASH_LITTLE_ENDIAN
    SWAPDEF,    \* build: the definition of byteswap64 the preprocessor selects
    twin,       \* a second, separate instance: a generator [state, seed, outs]
                \* or a hasher [secret]
    outs,       \* the raw draws the first instance returned so far
    secret,     \* wy::internal::hash_imp::secret of the hasher under test
    secret0,    \* the secret as it was when construction ended
    memo,       \* the hash call made before the last one
    ctor,       \* how the hasher was constructed: [kind, arg]
    threads,    \* per thread: where its call stands and its local variables
    sync        \* how the threads are coordinated: [mode, lock]

vars == <<state, seed0, ndraws, pc, ret, vec, NDEBUG, LITTLE, SWAPDEF, twin, outs,
          secret, secret0, memo, ctor, threads, sync>>

-----------------------------------------------------------------------------
(* Limb arithmetic                                                         *)

RECURSIVE Pow2(_)
Pow2(n) == IF n = 0 THEN 1 ELSE 2 * Pow2(n - 1)

RECURSIVE XorBits(_, _, _)
XorBits(a, b, n) ==
    IF n = 0 THEN 0
    ELSE ((a + b) % 2) + 2 * XorBits(a \div 2, b \div 2, n - 1)

XorNib == [a \in 0..15 |-> [b \in 0..15 |-> XorBits(a, b, 4)]]
AndNib == [a \in 0..15 |-> [b \in 0..15 |->
             LET RECURSIVE AndBits(_, _, _)
                 AndBits(x, y, n) ==
                     IF n = 0 THEN 0
                     ELSE ((x % 2) * (y % 2)) + 2 * AndBits(x \div 2, y \div 2, n - 1)
             IN AndBits(a, b, 4)]]

Xor8(a, b) == (16 * XorNib[a \div 16][b \div 16]) + XorNib[a % 16][b % 16]
And8(a, b) == (16 * AndNib[a \div 16][b \div 16]) + AndNib[a % 16][b % 16]
Or8(a, b) == a + b - And8(a, b)

Limb(a, i) == IF i >= 1 /\ i <= Len(a) THEN a[i] ELSE 0

\* The sequence f with every element computed (once).
Tup(f) == f \o <<>>

\* Statement order: v is computed, then r.
Then(v, r) == IF Len(<<v>>) = 1 THEN r ELSE <<>>

\* The n low limbs of a (a mod 256^n), zero-extended.
Low(a, n) == Tup([i \in 1..n |-> Limb(a, i)])

Zeros(n) == Tup([i \in 1..n |-> 0])

IsZero(a) == \A i \in 1..Len(a) : a[i] = 0

RECURSIVE AddFrom(_, _, _, _, _)
AddFrom(a, b, i, n, c) ==
    IF i > n THEN <<c>>
    ELSE LET s == Limb(a, i) + Limb(b, i) + c
         IN <<s % 256>> \o AddFrom(a, b, i + 1, n, s \div 256)

Max(x, y) == IF x >= y THEN x ELSE y
Min(x, y) == IF x <= y THEN x ELSE y

\* a + b, one limb longer than the longer operand.
BAdd(a, b) == AddFrom(a, b, 1, Max(Len(a), Len(b)), 0)

RECURSIVE SubFrom(_, _, _, _, _)
SubFrom(a, b, i, n, brw) ==
    IF i > n THEN <<>>
    ELSE LET s == Limb(a, i) - Limb(b, i) - brw
         IN IF s < 0 THEN <<s + 256>> \o SubFrom(a, b, i + 1, n, 1)
            ELSE <<s>> \o SubFrom(a, b, i + 1, n, 0)

\* a - b modulo 256^n with n the longer length (exact when a >= b).
BSub(a, b) == SubFrom(a, b, 1, Max(Len(a), Len(b)), 0)

RECURSIVE CmpFrom(_, _, _)
CmpFrom(a, b, i) ==
    IF i = 0 THEN 0
    ELSE IF Limb(a, i) > Limb(b, i) THEN 1
    ELSE IF Limb(a, i) < Limb(b, i) THEN -1
    ELSE CmpFrom(a, b, i - 1)

\* -1, 0, 1 as a < b, a = b, a > b (as numbers, whatever the lengths).
BCmp(a, b) == CmpFrom(a, b, Max(Len(a), Len(b)))

RECURSIVE ColSum(_, _, _, _, _)
ColSum(a, b, k, i, hi) ==
    IF i > hi THEN 0
    ELSE a[i] * b[k + 1 - i] + ColSum(a, b, k, i + 1, hi)

RECURSIVE CarryFrom(_, _, _, _)
CarryFrom(cols, i, n, c) ==
    IF i > n THEN <<>>
    ELSE LET s == cols[i] + c
         IN <<s % 256>> \o CarryFrom(cols, i + 1, n, s \div 256)

\* a * b in full, Len(a) + Len(b) limbs.
BMul(a, b) ==
    LET la == Len(a)
        lb == Len(b)
        n == la + lb
        cols == Tup([k \in 1..n |->
                       ColSum(a, b, k, Max(1, k + 1 - lb), Min(la, k))])
    IN CarryFrom(cols, 1, n, 0)

\* Number of significant bits of a byte.
RECURSIVE Bits8(_)
Bits8(x) == IF x = 0 THEN 0 ELSE 1 + Bits8(x \div 2)

RECURSIVE TopLimb(_, _)
TopLimb(a, i) == IF i = 0 THEN 0 ELSE IF a[i] # 0 THEN i ELSE TopLimb(a, i - 1)

\* Number of significant bits of a (0 for zero).
BitLen(a) ==
    LET t == TopLimb(a, Len(a))
    IN IF t = 0 THEN 0 ELSE 8 * (t - 1) + Bits8(a[t])

\* a * 2^k, long enough to hold every bit.
BShl(a, k) ==
    LET q == k \div 8
        r == k % 8
        p == Pow2(r)
        d == Pow2(8 - r)
        n == Len(a) + q + 1
    IN Tup([i \in 1..n |->
              IF i <= q THEN 0
              ELSE ((Limb(a, i - q) * p) % 256) + (Limb(a, i - q - 1) \div d)])

\* floor(a / 2^k).
BShr(a, k) ==
    LET q == k \div 8
        r == k % 8
        p == Pow2(r)
        d == Pow2(8 - r)
        n == Max(Len(a) - q, 1)
    IN Tup([i \in 1..n |->
              (Limb(a, i + q) \div p) + ((Limb(a, i + q + 1) * d) % 256)])

\* Bit k (0 = least significant) of a.
BitAt(a, k) == (Limb(a, (k \div 8) + 1) \div Pow2(k % 8)) % 2

\* Whether some bit below bit k of a is set.
AnyBelow(a, k) ==
    \/ \E i \in 1..(k \div 8) : Limb(a, i) # 0
    \/ (Limb(a, (k \div 8) + 1) % Pow2(k % 8)) # 0

-----------------------------------------------------------------------------
(* 64-bit words                                                            *)

Zero64 == Zeros(8)
Ones64 == Tup([i \in 1..8 |-> 255])

Xor64(a, b) == Tup([i \in 1..8 |-> Xor8(a[i], b[i])])
And64(a, b) == Tup([i \in 1..8 |-> And8(a[i], b[i])])
Or64(a, b) == Tup([i \in 1..8 |-> Or8(a[i], b[i])])
Add64(a, b) == Low(BAdd(a, b), 8)
Shr64(a, k) == Low(BShr(a, k), 8)
Shl64(a, k) == Low(BShl(a, k), 8)

\* A small number as a word.
RECURSIVE NatLimbs(_, _)
NatLimbs(x, n) == IF n = 0 THEN <<>> ELSE <<x % 256>> \o NatLimbs(x \div 256, n - 1)
U64(x) == NatLimbs(x, 8)

-----------------------------------------------------------------------------
(* Doubles: IEEE-754 binary64 in its normal range                           *)

SigBits == 53

\* The double nearest to (-1)^s * m * 2^e, ties to the even significand.
DRound(s, m, e) ==
    LET len == BitLen(m)
    IN IF len = 0 THEN [s |-> s, m |-> Zeros(7), e |-> 0]
       ELSE IF len <= SigBits
       THEN [s |-> s, m |-> Low(BShl(m, SigBits - len), 7), e |-> e - (SigBits - len)]
       ELSE LET k == len - SigBits
                q == Low(BShr(m, k), 7)
                up == /\ BitAt(m, k - 1) = 1
                      /\ (AnyBelow(m, k - 1) \/ BitAt(q, 0) = 1)
                q1 == IF up THEN BAdd(q, <<1>>) ELSE q
            IN IF BitLen(q1) > SigBits
               THEN [s |-> s, m |-> Low(BShr(q1, 1), 7), e |-> e + k + 1]
               ELSE [s |-> s, m |-> Low(q1, 7), e |-> e + k]

DZero(x) == IsZero(x.m)

\* -1, 0, 1 as |x| < |y|, |x| = |y|, |x| > |y|.
DCmpMag(x, y) ==
    IF DZero(x) THEN (IF DZero(y) THEN 0 ELSE -1)
    ELSE IF DZero(y) THEN 1
    ELSE IF x.e > y.e THEN 1
    ELSE IF x.e < y.e THEN -1
    ELSE BCmp(x.m, y.m)

\* -1, 0, 1 as x < y, x = y, x > y.
DCmp(x, y) ==
    IF DZero(x) /\ DZero(y) THEN 0
    ELSE IF x.s # y.s THEN (IF DZero(x) THEN (IF y.s = 1 THEN 1 ELSE -1)
                            ELSE IF x.s = 1 THEN -1 ELSE 1)
    ELSE IF x.s = 0 THEN DCmpMag(x, y) ELSE 0 - DCmpMag(x, y)

DLt(x, y) == DCmp(x, y) < 0
DLe(x, y) == DCmp(x, y) <= 0
DEq(x, y) == DCmp(x, y) = 0

DNeg(x) == [s |-> 1 - x.s, m |-> x.m, e |-> x.e]

\* x * y, rounded once.
DMul(x, y) == DRound((x.s + y.s) % 2, BMul(x.m, y.m), x.e + y.e)

\* x + y, rounded once.
DAdd(x, y) ==
    IF DZero(x) THEN y
    ELSE IF DZero(y) THEN x
    ELSE LET e == Min(x.e, y.e)
             xm == BShl(x.m, x.e - e)
             ym == BShl(y.m, y.e - e)
         IN IF x.s = y.s THEN DRound(x.s, BAdd(xm, ym), e)
            ELSE IF BCmp(xm, ym) >= 0 THEN DRound(x.s, BSub(xm, ym), e)
            ELSE DRound(y.s, BSub(ym, xm), e)

DSub(x, y) == DAdd(x, DNeg(y))

\* (double) of an unsigned integer.
DFromU64(w) == DRound(0, w, 0)

\* The double 2^k.
DPow2(k) == [s |-> 0, m |-> <<0, 0, 0, 0, 0, 0, 16>>, e |-> k - 52]

D0 == [s |-> 0, m |-> Zeros(7), e |-> 0]
D1 == DPow2(0)

-----------------------------------------------------------------------------
(* wyhash.h: the mixing primitive, the generator step and its conversions  *)

\* 0xa0761d6478bd642f and 0xe7037ed1a0b428db
WYP0 == <<47, 100, 189, 120, 100, 29, 118, 160>>
WYP1 == <<219, 40, 180, 160, 209, 126, 3, 231>>

\* The full 128-bit product: [lo, hi].
wymum(A, B) ==
    LET p == BMul(A, B)
    IN [lo |-> SubSeq(p, 1, 8), hi |-> SubSeq(p, 9, 16)]

\* Multiply and fold: the high half XOR the low half.
wymix(A, B) == LET p == wymum(A, B) IN Xor64(p.lo, p.hi)

\* *seed += constant; return the fold of the new state.
wyrand(seed) ==
    LET s1 == Add64(seed, WYP0)
    IN [state |-> s1, val |-> wymix(s1, Xor64(s1, WYP1))]

\* (r >> 12) * 2^-52
wy2u01(r) == DMul(DFromU64(Shr64(r, 12)), DPow2(-52))

\* The high 64 bits of r * k.
wy2u0k(r, k) == wymum(r, k).hi

Mask21 == <<255, 255, 31, 0, 0, 0, 0, 0>>

\* Three 21-bit fields of r added, scaled by 2^-20, less 3.
wy2gau(r) ==
    LET sum == Add64(Add64(And64(r, Mask21), And64(Shr64(r, 21), Mask21)),
                     And64(Shr64(r, 42), Mask21))
    IN DSub(DMul(DFromU64(sum), DPow2(-20)),
            [s |-> 0, m |-> <<0, 0, 0, 0, 0, 0, 24>>, e |-> -51])

-----------------------------------------------------------------------------
(* wy::rand                                                                 *)

\* rand(uint64_t seed) : state(seed)
rand_seed(seed) == seed

\* rand(): state = rd() | rd() << 32, with rd() the 32-bit values drawn
\* from std::random_device.
rand_default(rd1, rd2) == Or64(rd1, Shl64(rd2, 32))

\* As operator()(), with the state advanced twice.
rand_call_twice(st) == wyrand(wyrand(st).state)

\* operator()(): return wyrand(&state)
rand_call(st) == wyrand(st)

\* assert(cond) stops the program unless the build defines NDEBUG.
AssertFires(ndebug, cond) == ~ndebug /\ ~cond

\* What a call that stopped in assert() leaves behind.
Aborted(st) == [ok |-> FALSE, state |-> st, val |-> <<>>]

\* As uniform_dist(), dividing the whole draw by 2^64.
uniform_dist_ret_div(raw) == DMul(DFromU64(raw), DPow2(-64))

\* uniform_dist(): return wy2u01(operator()())
uniform_dist_ret(raw) == wy2u01(raw)

uniform_dist(st) ==
    LET d == rand_call(st)
    IN [ok |-> TRUE, state |-> d.state, val |-> uniform_dist_ret(d.val)]

\* As uniform_dist(min_value, max_value), with a second raw draw taken.
uniform_dist_range_twice(st, min_value, max_value, ndebug) ==
    IF AssertFires(ndebug, DLt(min_value, max_value)) THEN Aborted(st)
    ELSE LET u == uniform_dist(st)
         IN [ok |-> TRUE, state |-> rand_call(u.state).state,
             val |-> DAdd(DMul(u.val, DSub(max_value, min_value)), min_value)]

\* As uniform_dist(min_value, max_value), with the draw taken before the
\* assertion.
uniform_dist_range_drawfirst(st, min_value, max_value, ndebug) ==
    IF AssertFires(ndebug, DLt(min_value, max_value)) THEN Aborted(uniform_dist(st).state)
    ELSE [ok |-> TRUE, state |-> uniform_dist(st).state,
          val |-> DAdd(DMul(uniform_dist(st).val, DSub(max_value, min_value)), min_value)]

\* uniform_dist(min_value, max_value):
\*   assert(max_value > min_value);
\*   return uniform_dist() * (max_value - min_value) + min_value
uniform_dist_range(st, min_value, max_value, ndebug) ==
    IF AssertFires(ndebug, DLt(min_value, max_value)) THEN Aborted(st)
    ELSE LET u == uniform_dist(st)
         IN [ok |-> TRUE, state |-> u.state,
             val |-> DAdd(DMul(u.val, DSub(max_value, min_value)), min_value)]

\* As uniform_dist(max_value), returning the low half of the product.
uniform_dist_k_low(st, max_value) ==
    LET d == rand_call(st)
    IN [ok |-> TRUE, state |-> d.state, val |-> wymum(d.val, max_value).lo]

\* uniform_dist(max_value): return wy2u0k(operator()(), max_value)
uniform_dist_k(st, max_value) ==
    LET d == rand_call(st)
    IN [ok |-> TRUE, state |-> d.state, val |-> wy2u0k(d.val, max_value)]

\* gaussian_dist(): return wy2gau(operator()())
gaussian_dist(st) ==
    LET d == rand_call(st)
    IN [ok |-> TRUE, state |-> d.state, val |-> wy2gau(d.val)]

\* As gaussian_dist(mean, std), without its assertion.
gaussian_dist_ms_unchecked(st, mean, std, ndebug) ==
    LET g == gaussian_dist(st)
    IN [ok |-> TRUE, state |-> g.state, val |-> DAdd(DMul(g.val, std), mean)]

\* gaussian_dist(mean, std): assert(std > 0); return gaussian_dist() * std + mean
gaussian_dist_ms(st, mean, std, ndebug) ==
    IF AssertFires(ndebug, DLt(D0, std)) THEN Aborted(st)
    ELSE LET g == gaussian_dist(st)
         IN [ok |-> TRUE, state |-> g.state,
             val |-> DAdd(DMul(g.val, std), mean)]

\* The state after n raw draws from state s, and the j-th raw draw from s.
RECURSIVE StateAfter(_, _)
StateAfter(s, n) == IF n = 0 THEN s ELSE wyrand(StateAfter(s, n - 1)).state

DrawNo(s, j) == wyrand(StateAfter(s, j - 1)).val

-----------------------------------------------------------------------------
(* Inputs                                                                   *)

MaxDraws == 4

\* 0, 1, the seed of TEST(wyrand, Constructors), and UINT64_MAX
Seeds == {Zero64, U64(1), <<72, 245, 173, 88, 68, 0, 0, 0>>, Ones64}

\* Values std::random_device may return.
RdSamples == {<<0, 0, 0, 0, 0, 0, 0, 0>>, <<239, 190, 173, 222, 0, 0, 0, 0>>}

\* -1.2, -1.0, 1.0, 1.0 + 2^-52, 1.5, 4.7, 2.0, 1.1, 2.3 as doubles
Dm1_2 == [s |-> 1, m |-> <<51, 51, 51, 51, 51, 51, 19>>, e |-> -52]
Dm1 == DNeg(D1)
D1next == [s |-> 0, m |-> <<1, 0, 0, 0, 0, 0, 16>>, e |-> -52]
D1_5 == [s |-> 0, m |-> <<0, 0, 0, 0, 0, 0, 24>>, e |-> -52]
D4_7 == [s |-> 0, m |-> <<205, 204, 204, 204, 204, 204, 18>>, e |-> -50]
D2 == DPow2(1)
D1_1 == [s |-> 0, m |-> <<154, 153, 153, 153, 153, 153, 17>>, e |-> -52]
D2_3 == [s |-> 0, m |-> <<102, 102, 102, 102, 102, 102, 18>>, e |-> -51]

\* <<min_value, max_value>>: the pairs of TEST(wyrand, Uniform) and of the
\* README, two adjacent doubles, and two pairs that break max > min.
Ranges == {<<Dm1_2, Dm1>>, <<D1_5, D4_7>>, <<D1, D1next>>, <<D1, D1>>, <<D2, D1>>}

\* max_value of the bounded integer draw: 0, 1, 13, 500, 2^63, 2^64 - 1
Ks == {Zero64, U64(1), U64(13), U64(500), <<0, 0, 0, 0, 0, 0, 0, 128>>, Ones64}

\* <<mean, std>>: the pair of TEST(wyrand, Gaussian), and std = 0, std < 0
MeanStds == {<<D1_1, D2_3>>, <<D1_1, D0>>, <<D0, Dm1>>}

NoRet == [op |-> "none", ok |-> TRUE, val |-> <<>>, a |-> <<>>, b |-> <<>>]

-----------------------------------------------------------------------------
(* The generator and its distribution calls                                 *)

Init ==
    /\ \/ seed0 \in Seeds /\ state = rand_seed(seed0)
       \/ \E a, b \in RdSamples : state = rand_default(a, b) /\ seed0 = state
    /\ ndraws = 0
    /\ pc = "ready"
    /\ ret = NoRet
    /\ vec = <<>>
    /\ NDEBUG \in BOOLEAN
    /\ LITTLE = TRUE /\ SWAPDEF = "portable"
    /\ twin = <<>>
    /\ outs = <<>>
    /\ secret = <<>>
    /\ secret0 = <<>>
    /\ memo = <<>>
    /\ ctor = <<>> /\ threads = <<>> /\ sync = <<>>

\* What every call of the generator leaves alone.
Frame == UNCHANGED <<seed0, vec, NDEBUG, LITTLE, SWAPDEF, twin, outs, secret, secret0, memo, ctor, threads, sync>>

\* A call that returned r (or stopped in an assertion).
Returned(op, r, a, b) ==
    /\ state' = r.state
    /\ ret' = [op |-> op, ok |-> r.ok, val |-> r.val, a |-> a, b |-> b]
    /\ pc' = IF r.ok THEN "ready" ELSE "aborted"
    /\ ndraws' = IF r.ok THEN ndraws + 1 ELSE ndraws
    /\ Frame

Draw ==
    /\ pc = "ready" /\ ndraws < MaxDraws
    /\ LET d == rand_call(state)
       IN Returned("draw", [ok |-> TRUE, state |-> d.state, val |-> d.val], <<>>, <<>>)

Uniform01 ==
    /\ pc = "ready" /\ ndraws < MaxDraws
    /\ Returned("uniform01", uniform_dist(state), <<>>, <<>>)

UniformRange ==
    /\ pc = "ready" /\ ndraws < MaxDraws
    /\ \E r \in Ranges :
         Returned("uniform_range", uniform_dist_range(state, r[1], r[2], NDEBUG),
                  r[1], r[2])

UniformK ==
    /\ pc = "ready" /\ ndraws < MaxDraws
    /\ \E k \in Ks : Returned("uniform_k", uniform_dist_k(state, k), k, <<>>)

Gaussian01 ==
    /\ pc = "ready" /\ ndraws < MaxDraws
    /\ Returned("gaussian01", gaussian_dist(state), <<>>, <<>>)

GaussianMS ==
    /\ pc = "ready" /\ ndraws < MaxDraws
    /\ \E p \in MeanStds :
         Returned("gaussian_ms", gaussian_dist_ms(state, p[1], p[2], NDEBUG),
                  p[1], p[2])

Next ==
    \/ Draw
    \/ Uniform01
    \/ UniformRange
    \/ UniformK
    \/ Gaussian01
    \/ GaussianMS

Spec == Init /\ [][Next]_vars

-----------------------------------------------------------------------------
(* Claims about the distribution calls                                      *)

DistOps == {"uniform01", "uniform_range", "uniform_k", "gaussian01", "gaussian_ms"}

\* What TEST(wyrand, Uniform) and TEST(wyrand, Gaussian) compute from the
\* reference draw wyrand(&originalSeed) for each call.
Expected(op, raw, a, b) ==
    CASE op = "uniform01" -> wy2u01(raw)
      [] op = "uniform_range" -> DAdd(a, DMul(DSub(b, a), wy2u01(raw)))
      [] op = "uniform_k" -> wy2u0k(raw, a)
      [] op = "gaussian01" -> wy2gau(raw)
      [] op = "gaussian_ms" -> DAdd(a, DMul(b, wy2gau(raw)))

\* C4: every distribution call that returns consumes exactly one raw draw:
\* after n calls the state is the state after n raw draws from the starting
\* state, and the n-th call's result is computed from the n-th raw draw.
C4_OneDrawPerCall ==
    /\ state = StateAfter(seed0, ndraws)
    /\ (ret.op \in DistOps /\ ret.ok) =>
          ret.val = Expected(ret.op, DrawNo(seed0, ndraws), ret.a, ret.b)

C4_Witness ==
    /\ ndraws = 3
    /\ ret.op = "gaussian_ms" /\ ret.ok
    /\ state = StateAfter(seed0, 3)

\* C5: for k > 0, uniform_dist(k) is the high 64 bits of the 128-bit product
\* of the raw draw and k, and lies in [0, k).
C5_HighHalfBelowK ==
    (ret.op = "uniform_k" /\ ~IsZero(ret.a)) =>
        /\ ret.val = SubSeq(BMul(DrawNo(seed0, ndraws), ret.a), 9, 16)
        /\ BCmp(ret.val, ret.a) < 0

C5_Witness ==
    /\ ret.op = "uniform_k" /\ ret.a = Ones64
    /\ BCmp(ret.val, <<0, 0, 0, 0, 0, 0, 0, 128>>) > 0

\* C7 as claimed: for lo < hi, uniform_dist(lo, hi) is lo + (hi - lo) * u
\* and lo <= result < hi.
C7_InHalfOpenRange ==
    (ret.op = "uniform_range" /\ ret.ok /\ DLt(ret.a, ret.b)) =>
        /\ ret.val = DAdd(ret.a, DMul(DSub(ret.b, ret.a),
                                      wy2u01(DrawNo(seed0, ndraws))))
        /\ DLe(ret.a, ret.val)
        /\ DLt(ret.val, ret.b)

\* C8 as claimed: uniform_dist(0) ends in an error and returns no value.
C8_ZeroKFails ==
    (ret.op = "uniform_k" /\ IsZero(ret.a)) => ~ret.ok

\* C9 as claimed: uniform_dist(lo, hi) with hi <= lo and
\* gaussian_dist(mean, std) with std <= 0 end in an assertion failure.
C9_BadArgsFail ==
    /\ (ret.op = "uniform_range" /\ ~DLt(ret.a, ret.b)) => ~ret.ok
    /\ (ret.op = "gaussian_ms" /\ ~DLt(D0, ret.b)) => ~ret.ok

\* C9 as amended: in a build with assertions (NDEBUG not defined) those
\* calls end in an assertion failure; in a build with NDEBUG they return.
C9_BadArgsFailUnlessNDEBUG ==
    /\ (ret.op = "uniform_range" /\ ~DLt(ret.a, ret.b)) => (ret.ok <=> NDEBUG)
    /\ (ret.op = "gaussian_ms" /\ ~DLt(D0, ret.b)) => (ret.ok <=> NDEBUG)
    /\ ~ret.ok => pc = "aborted"

C9_Witness ==
    /\ ~NDEBUG /\ pc = "aborted"
    /\ ret.op = "gaussian_ms" /\ ret.b = D0

-----------------------------------------------------------------------------
(* generate_stream                                                          *)

\* byteswap64(v), as its portable definition computes it.
byteswap64(v) ==
    LET v1 == Or64(Shl64(And64(v, <<255, 255, 255, 255, 0, 0, 0, 0>>), 32),
                   Shr64(And64(v, <<0, 0, 0, 0, 255, 255, 255, 255>>), 32))
        v2 == Or64(Shl64(And64(v1, <<255, 255, 0, 0, 255, 255, 0, 0>>), 16),
                   Shr64(And64(v1, <<0, 0, 255, 255, 0, 0, 255, 255>>), 16))
    IN Or64(Shl64(And64(v2, <<255, 0, 255, 0, 255, 0, 255, 0>>), 8),
            Shr64(And64(v2, <<0, 255, 0, 255, 0, 255, 0, 255>>), 8))

\* The 8 bytes memcpy reads from a uint64_t, lowest address first.
HostBytes(w, little) == IF little THEN w ELSE Tup([i \in 1..8 |-> w[9 - i]])

\* (size + sizeof(uint64_t) - 1) / sizeof(uint64_t) in size_t arithmetic
sizeOf64(size) == Shr64(Add64(size, U64(7)), 3)

\* A word below 2^24 as a number.
ToNat(w) == w[1] + 256 * w[2] + 65536 * w[3]

\* vec.resize(n, fill)
Resize(v, n, fill) == Tup([i \in 1..n |-> IF i <= Len(v) THEN v[i] ELSE fill])

\* for (i = 0; i < sizeOf64; i++) { val = operator()() (byte-swapped on a
\* big-endian host); memcpy(dataPtr + i * 8, &val, 8); }
RECURSIVE StreamLoop(_, _, _, _, _)
StreamLoop(st, v, i, n, little) ==
    IF i >= n THEN [state |-> st, vec |-> v]
    ELSE LET d == rand_call(st)
             val == IF little THEN d.val ELSE byteswap64(d.val)
             mem == HostBytes(val, little)
         IN StreamLoop(d.state,
                       Tup([j \in 1..Len(v) |->
                              IF j > 8 * i /\ j <= 8 * i + 8 THEN mem[j - 8 * i] ELSE v[j]]),
                       i + 1, n, little)

\* As generate_stream(vec, size), without the final vec.resize(size).
generate_stream_vec_whole(st, v, size, little) ==
    LET n == ToNat(sizeOf64(U64(size)))
    IN StreamLoop(st, Resize(v, n * 8, 0), 0, n, little)

\* As generate_stream(vec, size), drawing even when no byte is asked for.
generate_stream_vec_eager(st, v, size, little) ==
    LET n == Max(ToNat(sizeOf64(U64(size))), 1)
        r == StreamLoop(st, Resize(v, n * 8, 0), 0, n, little)
    IN [state |-> r.state, vec |-> Resize(r.vec, size, 0)]

\* As generate_stream(vec, size), with one raw draw for every byte.
generate_stream_vec_bytewise(st, v, size, little) ==
    LET r == StreamLoop(st, Resize(v, size * 8, 0), 0, size, little)
    IN [state |-> r.state, vec |-> Resize(r.vec, size, 0)]

\* As generate_stream(vec, size), drawing from a copy of the state.
generate_stream_vec_copy(st, v, size, little) ==
    LET n == ToNat(sizeOf64(U64(size)))
        r == StreamLoop(st, Resize(v, n * 8, 0), 0, n, little)
    IN [state |-> st, vec |-> Resize(r.vec, size, 0)]

\* generate_stream(std::vector<uint8_t>& vec, size_t size)
generate_stream_vec(st, v, size, little) ==
    LET n == ToNat(sizeOf64(U64(size)))
        r == StreamLoop(st, Resize(v, n * 8, 0), 0, n, little)
    IN [state |-> r.state, vec |-> Resize(r.vec, size, 0)]

\* generate_stream(size_t size): an empty vector, filled and returned.
generate_stream(st, size, little) == generate_stream_vec(st, <<>>, size, little)

MaxSize == 17

\* Raw draws one run of the stream calls may consume.
MaxWords == 3

\* The seed of TEST(wyrand, Constructors), and UINT64_MAX
StreamSeeds == {<<72, 245, 173, 88, 68, 0, 0, 0>>, Ones64}

\* What the caller's vector may hold before the call.
OldVecs == {<<1, 2, 3>>, Tup([i \in 1..24 |-> 170])}

StreamInit ==
    /\ seed0 \in StreamSeeds
    /\ state = rand_seed(seed0)
    /\ ndraws = 0
    /\ pc = "ready"
    /\ ret = NoRet
    /\ vec \in OldVecs
    /\ NDEBUG = FALSE
    /\ LITTLE \in BOOLEAN /\ SWAPDEF = "portable"
    /\ twin = <<>>
    /\ outs = <<>>
    /\ secret = <<>>
    /\ secret0 = <<>>
    /\ memo = <<>>
    /\ ctor = <<>> /\ threads = <<>> /\ sync = <<>>

StreamFrame ==
    UNCHANGED <<seed0, pc, NDEBUG, LITTLE, SWAPDEF, twin, outs, secret, secret0, memo, ctor, threads, sync>>

\* r = generate_stream(size): ret.a is size, ret.b the state before the call.
GenerateStream ==
    /\ pc = "ready"
    /\ \E size \in 0..MaxSize :
         /\ ndraws + ((size + 7) \div 8) <= MaxWords
         /\ LET r == generate_stream(state, size, LITTLE)
            IN /\ state' = r.state
               /\ ret' = [op |-> "stream", ok |-> TRUE, val |-> r.vec,
                          a |-> size, b |-> state]
               /\ ndraws' = ndraws + ((size + 7) \div 8)
               /\ vec' = vec
    /\ StreamFrame

\* generate_stream(vec, size): ret.val is what vec held before the call.
GenerateStreamVec ==
    /\ pc = "ready"
    /\ \E size \in 0..MaxSize :
         /\ ndraws + ((size + 7) \div 8) <= MaxWords
         /\ LET r == generate_stream_vec(state, vec, size, LITTLE)
            IN /\ state' = r.state
               /\ ret' = [op |-> "stream_vec", ok |-> TRUE, val |-> vec,
                          a |-> size, b |-> state]
               /\ ndraws' = ndraws + ((size + 7) \div 8)
               /\ vec' = r.vec
    /\ StreamFrame

\* A raw draw between stream calls.
StreamDraw ==
    /\ ndraws < MaxWords
    /\ Draw

StreamNext ==
    \/ StreamDraw
    \/ GenerateStream
    \/ GenerateStreamVec

StreamSpec == StreamInit /\ [][StreamNext]_vars

\* The bytes the last stream call produced.
Streamed == IF ret.op = "stream" THEN ret.val ELSE vec

\* Byte j (0 = least significant) of a word: (w >> 8j) & 0xff.
ByteOf(w, j) == BShr(w, 8 * j)[1]

\* C3: generate_stream(size) returns exactly size bytes, and byte i is byte
\* (i mod 8), from the least significant, of raw draw floor(i/8)+1 from the
\* state the call started in, on little- and big-endian hosts; 16 bytes are
\* two successive raw draws as little-endian words.
C3_StreamBytes ==
    ret.op \in {"stream", "stream_vec"} =>
        /\ Len(Streamed) = ret.a
        /\ LET draws == Tup([k \in 1..((ret.a + 7) \div 8) |-> DrawNo(ret.b, k)])
           IN /\ \A i \in 0..(ret.a - 1) :
                    Streamed[i + 1] = ByteOf(draws[(i \div 8) + 1], i % 8)
              /\ ret.a = 16 =>
                    /\ SubSeq(Streamed, 1, 8) = draws[1]
                    /\ SubSeq(Streamed, 9, 16) = draws[2]

C3_Witness ==
    /\ ret.op = "stream_vec" /\ ret.a = 17 /\ ~LITTLE
    /\ Len(ret.val) = 24
    /\ vec[17] = DrawNo(ret.b, 3)[1]

\* C11: generate_stream(size) advances the state by exactly ceil(size/8) raw
\* draws, so after any mix of stream calls and raw draws the state is the
\* state after that many draws from the seed, a raw draw returns the next
\* value of the seed's sequence, and a stream call starts with a fresh draw
\* (no byte of an earlier truncated word is carried over).
C11_StreamIsDraws ==
    /\ state = StateAfter(seed0, ndraws)
    /\ ret.op = "draw" => ret.val = DrawNo(seed0, ndraws)
    /\ ret.op \in {"stream", "stream_vec"} =>
          LET n == (ret.a + 7) \div 8
          IN /\ ret.b = StateAfter(seed0, ndraws - n)
             /\ state = StateAfter(ret.b, n)
             /\ ret.a > 0 => Streamed[1] = DrawNo(seed0, ndraws - n + 1)[1]

C11_Witness ==
    /\ ret.op = "stream" /\ ret.a = 3
    /\ Len(vec) = 10
    /\ ndraws = 3
    /\ ret.val = SubSeq(DrawNo(seed0, 3), 1, 3)

\* C10: generate_stream(0), in both overloads and whatever the vector held,
\* returns an empty buffer and leaves the generator state as it was.
C10_ZeroSizeNoDraw ==
    (ret.op \in {"stream", "stream_vec"} /\ ret.a = 0) =>
        /\ Streamed = <<>>
        /\ state = ret.b

C10_Witness ==
    /\ ret.op = "stream_vec" /\ ret.a = 0
    /\ Len(ret.val) = 24
    /\ vec = <<>>
    /\ ndraws > 0

-----------------------------------------------------------------------------
(* Two separate generator instances                                         *)

TwinInit ==
    /\ seed0 \in Seeds
    /\ state = rand_seed(seed0)
    /\ outs = <<>>
    /\ \E s \in Seeds : twin = [seed |-> s, state |-> rand_seed(s), outs |-> <<>>]
    /\ ndraws = 0
    /\ pc = "ready"
    /\ ret = NoRet
    /\ vec = <<>>
    /\ NDEBUG = FALSE
    /\ LITTLE = TRUE /\ SWAPDEF = "portable"
    /\ secret = <<>>
    /\ secret0 = <<>>
    /\ memo = <<>>
    /\ ctor = <<>> /\ threads = <<>> /\ sync = <<>>

TwinFrame ==
    UNCHANGED <<seed0, ndraws, pc, ret, vec, NDEBUG, LITTLE, SWAPDEF, secret, secret0, memo, ctor, threads, sync>>

\* r1(): the first instance draws.
TwinDrawA ==
    /\ Len(outs) < MaxDraws
    /\ LET d == rand_call(state)
       IN /\ state' = d.state
          /\ outs' = Append(outs, d.val)
    /\ UNCHANGED twin
    /\ TwinFrame

\* As r2(), with the state word shared between the instances.
TwinDrawB_shared ==
    /\ Len(twin.outs) < MaxDraws
    /\ LET d == rand_call(state)
       IN /\ state' = d.state
          /\ twin' = [twin EXCEPT !.state = d.state, !.outs = Append(@, d.val)]
    /\ UNCHANGED outs
    /\ TwinFrame

\* r2(): the second instance draws.
TwinDrawB ==
    /\ Len(twin.outs) < MaxDraws
    /\ LET d == rand_call(twin.state)
       IN twin' = [twin EXCEPT !.state = d.state, !.outs = Append(@, d.val)]
    /\ UNCHANGED <<state, outs>>
    /\ TwinFrame

TwinNext ==
    \/ TwinDrawA
    \/ TwinDrawB

TwinSpec == TwinInit /\ [][TwinNext]_vars

\* C1: two generators constructed with rand(s) start with state = s and
\* return the same raw draws, the first being wyrand of a word holding s.
C1_SameSeedSameDraws ==
    /\ outs = <<>> => state = seed0
    /\ twin.outs = <<>> => twin.state = twin.seed
    /\ outs # <<>> => outs[1] = wyrand(seed0).val
    /\ twin.seed = seed0 =>
          \A i \in 1..Min(Len(outs), Len(twin.outs)) : outs[i] = twin.outs[i]

C1_Witness ==
    /\ twin.seed = seed0
    /\ Len(outs) = MaxDraws /\ Len(twin.outs) = MaxDraws
    /\ outs = twin.outs
    /\ outs[1] # outs[2]

-----------------------------------------------------------------------------
(* The conversions of a raw draw, on raw draws given directly               *)

\* Every word whose bytes are each 0x00 or 0xff: 0 and UINT64_MAX among them.
RawSamples ==
    {Tup([i \in 1..8 |-> IF i \in S THEN 255 ELSE 0]) : S \in SUBSET (1..8)}

ConvInit ==
    /\ ret = NoRet
    /\ state = Zero64 /\ seed0 = Zero64 /\ ndraws = 0 /\ pc = "ready"
    /\ vec = <<>> /\ NDEBUG = FALSE /\ LITTLE = TRUE /\ SWAPDEF = "portable"
    /\ twin = <<>> /\ outs = <<>>
    /\ secret = <<>> /\ secret0 = <<>> /\ memo = <<>> /\ ctor = <<>> /\ threads = <<>> /\ sync = <<>>

\* What uniform_dist() returns when operator()() returned raw: ret.a is raw.
ConvUniform01 ==
    /\ ret.op = "none"
    /\ \E raw \in RawSamples :
         ret' = [op |-> "uniform01", ok |-> TRUE, val |-> uniform_dist_ret(raw),
                 a |-> raw, b |-> <<>>]
    /\ UNCHANGED <<state, seed0, ndraws, pc, vec, NDEBUG, LITTLE, SWAPDEF, twin, outs,
                   secret, secret0, memo, ctor, threads, sync>>

ConvNext == ConvUniform01

ConvSpec == ConvInit /\ [][ConvNext]_vars

\* C6: uniform_dist() is in [0, 1): at least 0 and never 1.0, for every raw
\* draw, the all-ones draw included.
C6_UnitInterval ==
    ret.op = "uniform01" =>
        /\ DLe(D0, ret.val)
        /\ DLt(ret.val, D1)
        /\ ~DEq(ret.val, D1)

C6_Witness ==
    /\ ret.op = "uniform01" /\ ret.a = Ones64
    /\ ret.val = [s |-> 0, m |-> <<254, 255, 255, 255, 255, 255, 31>>, e |-> -53]

-----------------------------------------------------------------------------
(* wyhash.h: the hash of a byte buffer and of a 64-bit number               *)

WYP2 == <<227, 198, 136, 156, 240, 106, 188, 142>>
WYP3 == <<195, 76, 55, 117, 204, 101, 153, 88>>

\* The compiler's byte swaps of a 64-bit and of a 32-bit value.
bswap64(v) == <<v[8], v[7], v[6], v[5], v[4], v[3], v[2], v[1]>>
bswap32(v) == <<v[4], v[3], v[2], v[1], 0, 0, 0, 0>>

\* The n bytes at offset o of the buffer, as the host reads them into an
\* unsigned integer (memcpy): a word.
HostLoad(key, o, n, little) ==
    Tup([i \in 1..8 |->
           IF i > n THEN 0
           ELSE IF little THEN key[o + i] ELSE key[o + n + 1 - i]])

\* As _wyr8, without the swap after the load.
wyr8_raw(key, o, little) == HostLoad(key, o, 8, little)

\* _wyr8: 8 bytes as a little-endian word, swapped after the load on a
\* big-endian host.
wyr8(key, o, little) ==
    IF little THEN HostLoad(key, o, 8, little)
    ELSE bswap64(HostLoad(key, o, 8, little))

\* _wyr4: 4 bytes as a little-endian 32-bit word.
wyr4(key, o, little) ==
    IF little THEN HostLoad(key, o, 4, little)
    ELSE bswap32(HostLoad(key, o, 4, little))

\* As _wyr3, reading the first and the last byte only.
wyr3_ends(key, k) == <<key[k], key[k], key[1], 0, 0, 0, 0, 0>>

\* _wyr3: the first, the middle and the last of k bytes (1 <= k <= 3).
wyr3(key, k) == <<key[k], key[(k \div 2) + 1], key[1], 0, 0, 0, 0, 0>>

\* As the blocks of 16, with the last two words loaded 8 bytes further on.
RECURSIVE Absorb16_past(_, _, _, _, _, _)
Absorb16_past(key, p, i, seed, sec, little) ==
    IF i > 16
    THEN Absorb16_past(key, p + 16, i - 16,
                       wymix(Xor64(wyr8(key, p, little), sec[2]),
                             Xor64(wyr8(key, p + 8, little), seed)),
                       sec, little)
    ELSE [a |-> wyr8(key, p + i - 8, little),
          b |-> wyr8(key, p + i, little),
          seed |-> seed]

\* Blocks of 16 bytes while more than 16 remain, then the last 16 bytes of
\* the buffer: the words a and b they load, and the seed so far.
RECURSIVE Absorb16(_, _, _, _, _, _)
Absorb16(key, p, i, seed, sec, little) ==
    IF i > 16
    THEN Absorb16(key, p + 16, i - 16,
                  wymix(Xor64(wyr8(key, p, little), sec[2]),
                        Xor64(wyr8(key, p + 8, little), seed)),
                  sec, little)
    ELSE [a |-> wyr8(key, p + i - 16, little),
          b |-> wyr8(key, p + i - 8, little),
          seed |-> seed]

\* Blocks of 48 bytes while more than 48 remain, on three accumulators that
\* are folded into one before the blocks of 16.
RECURSIVE Absorb48(_, _, _, _, _, _, _, _)
Absorb48(key, p, i, seed, see1, see2, sec, little) ==
    IF i > 48
    THEN Absorb48(key, p + 48, i - 48,
                  wymix(Xor64(wyr8(key, p, little), sec[2]),
                        Xor64(wyr8(key, p + 8, little), seed)),
                  wymix(Xor64(wyr8(key, p + 16, little), sec[3]),
                        Xor64(wyr8(key, p + 24, little), see1)),
                  wymix(Xor64(wyr8(key, p + 32, little), sec[4]),
                        Xor64(wyr8(key, p + 40, little), see2)),
                  sec, little)
    ELSE Absorb16(key, p, i, Xor64(seed, Xor64(see1, see2)), sec, little)

\* The words a and b and the seed after the key is read: the length classes
\* 0, 1..3, 4..16 and more than 16 bytes.
wyhash_absorb(key, len, seed, sec, little) ==
    IF len > 48 THEN Absorb48(key, 48, len - 48,
                  wymix(Xor64(wyr8(key, 0, little), sec[2]),
                        Xor64(wyr8(key, 8, little), seed)),
                  wymix(Xor64(wyr8(key, 16, little), sec[3]),
                        Xor64(wyr8(key, 24, little), seed)),
                  wymix(Xor64(wyr8(key, 32, little), sec[4]),
                        Xor64(wyr8(key, 40, little), seed)),
                  sec, little)
    ELSE IF len > 16 THEN Absorb16(key, 0, len, seed, sec, little)
    ELSE IF len >= 4
    THEN [a |-> Or64(Shl64(wyr4(key, 0, little), 32),
                     wyr4(key, (len \div 8) * 4, little)),
          b |-> Or64(Shl64(wyr4(key, len - 4, little), 32),
                     wyr4(key, len - 4 - ((len \div 8) * 4), little)),
          seed |-> seed]
    ELSE IF len > 0 THEN [a |-> wyr3(key, len), b |-> Zero64, seed |-> seed]
    ELSE [a |-> Zero64, b |-> Zero64, seed |-> seed]

\* a ^= secret[1]; b ^= seed; _wymum(&a, &b): the two halves.
wyhash_mum(x, sec) == wymum(Xor64(x.a, sec[2]), Xor64(x.b, x.seed))

\* return _wymix(a ^ secret[0] ^ len, b ^ secret[1])
wyhash_finish(m, len, sec) ==
    wymix(Xor64(Xor64(m.lo, sec[1]), U64(len)), Xor64(m.hi, sec[2]))

\* wyhash(key, len, seed, secret): the seed is salted, the key absorbed, and
\* the finishing mix takes the length.
wyhash(key, len, seed, sec, little) ==
    wyhash_finish(
        wyhash_mum(
            wyhash_absorb(key, len,
                          Xor64(seed, wymix(Xor64(seed, sec[1]), sec[2])),
                          sec, little),
            sec),
        len, sec)

\* wyhash64(A, B): two mixing steps on the salted pair.
wyhash64(A, B) ==
    LET m == wymum(Xor64(A, WYP0), Xor64(B, WYP1))
    IN wymix(Xor64(m.lo, WYP0), Xor64(m.hi, WYP1))

-----------------------------------------------------------------------------
(* wyhash.h: make_secret                                                    *)

\* The candidate bytes c[] of make_secret: the 70 bytes with four bits set.
wy_c ==
    <<15, 23, 27, 29, 30, 39, 43, 45, 46, 51, 53, 54, 57, 58, 60, 71, 75, 77,
      78, 83, 85, 86, 89, 90, 92, 99, 101, 102, 105, 106, 108, 113, 114, 116,
      120, 135, 139, 141, 142, 147, 149, 150, 153, 154, 156, 163, 165, 166,
      169, 170, 172, 177, 178, 180, 184, 195, 197, 198, 201, 202, 204, 209,
      210, 212, 216, 225, 226, 228, 232, 240>>

\* r % sizeof(c) of a word r, from its most significant byte down.
RECURSIVE ModLen(_, _, _)
ModLen(r, i, acc) ==
    IF i = 0 THEN acc ELSE ModLen(r, i - 1, ((acc * 256) + r[i]) % Len(wy_c))

\* Set bits of a byte, and of a word.
PopByte == [b \in 0..255 |->
                             (b % 2) + ((b \div 2) % 2) + ((b \div 4) % 2) +
                             ((b \div 8) % 2) + ((b \div 16) % 2) +
                             ((b \div 32) % 2) + ((b \div 64) % 2) + (b \div 128)]

popcount(w) ==
    PopByte[w[1]] + PopByte[w[2]] + PopByte[w[3]] + PopByte[w[4]] +
    PopByte[w[5]] + PopByte[w[6]] + PopByte[w[7]] + PopByte[w[8]]

\* for (j = 0; j < 64; j += 8) secret[i] |= c[wyrand(&seed) % sizeof(c)] << j:
\* the seed after the draws, and the word w with byte j, j+1, .. 7 OR-ed in.
RECURSIVE Candidate(_, _, _)
Candidate(seed, w, j) ==
    IF j = 8 THEN [seed |-> seed, word |-> w]
    ELSE LET d == wyrand(seed)
             b == wy_c[ModLen(d.val, 8, 0) + 1]
             w1 == Tup([k \in 1..8 |-> IF k = j + 1 THEN Or8(w[k], b) ELSE w[k]])
         IN Then(w1, Candidate(d.state, w1, j + 1))

\* As the checks of secret[i], with every candidate accepted.
CandidateOk_any(arr, i) == arr[i + 1][1] \in 0..255

\* The checks of secret[i] against secret[0..i-1]: it is odd, and differs
\* from each earlier word in exactly 32 bits.
CandidateOk(arr, i) ==
    /\ arr[i + 1][1] % 2 = 1
    /\ \A j \in 1..i : popcount(Xor64(arr[j], arr[i + 1])) = 32

\* One pass of the do-while for secret[i]: ok = 1; secret[i] = 0; the bytes
\* are drawn; the word stays in the array and i advances when it passes.
make_secret_try(seed, arr, i) ==
    LET c == Candidate(seed, Zero64, 0)
        a1 == Tup([k \in 1..4 |-> IF k = i + 1 THEN c.word ELSE arr[k]])
    IN [seed |-> c.seed, secret |-> a1,
        i |-> IF CandidateOk(a1, i) THEN i + 1 ELSE i]

\* for (i = 0; i < 4; i++) do { .. } while (!ok)
RECURSIVE make_secret_from(_, _, _)
make_secret_from(seed, arr, i) ==
    IF i = 4 THEN arr
    ELSE LET t == make_secret_try(seed, arr, i)
         IN Then(t, make_secret_from(t.seed, t.secret, t.i))

\* make_secret(seed, secret): arr is what the array held before the call.
make_secret(seed, arr) == make_secret_from(seed, arr, 0)

-----------------------------------------------------------------------------
(* wy::internal::hash_imp                                                   *)

\* hash_imp(): the four default words
hash_imp_default == <<WYP0, WYP1, WYP2, WYP3>>

\* As hash_imp(seed), with the secret made in a temporary and never stored.
hash_imp_seed_unset(seed, mem) == mem

\* hash_imp(uint64_t seed): make_secret(seed, secret); mem is what the
\* member array, which no initializer sets, holds when the body starts.
hash_imp_seed(seed, mem) == make_secret(seed, mem)

\* As hash_imp(psecret), copying sizeof(psecret), the size of a pointer.
hash_imp_secret_ptrsize(psecret) == <<psecret[1], Zero64, Zero64, Zero64>>

\* hash_imp(const uint64_t psecret[4]): memcpy(secret, psecret, sizeof(secret))
hash_imp_secret(psecret) == Tup([i \in 1..4 |-> psecret[i]])

\* As hash_imp::wyhash(data, len), keeping the digest in secret[0].
hash_imp_wyhash_salting(sec, data, little) ==
    LET h == wyhash(data, Len(data), Zero64, sec, little)
    IN [secret |-> <<h, sec[2], sec[3], sec[4]>>, val |-> h]

\* hash_imp::wyhash(data, len) const: return ::wyhash(data, len, 0, secret).
\* The hasher's secret after the call, and the digest.
hash_imp_wyhash(sec, data, little) ==
    [secret |-> sec, val |-> wyhash(data, Len(data), Zero64, sec, little)]

\* As hash_imp::wyhash(number), salted with secret[1].
hash_imp_wyhash64_word1(sec, number) ==
    [secret |-> sec, val |-> wyhash64(number, sec[2])]

\* hash_imp::wyhash(number) const: return ::wyhash64(number, secret[0])
hash_imp_wyhash64(sec, number) ==
    [secret |-> sec, val |-> wyhash64(number, sec[1])]

\* Buffer lengths: every length class and its edges.
HashLens == {0, 1, 3, 4, 8, 16, 17, 48, 49, 97}

\* A buffer of n bytes.
Buffer(n) == Tup([i \in 1..n |-> (37 * i + 11) % 256])

\* Secrets a caller may hand to hash_imp(psecret).
SecretSamples == {<<Ones64, Zero64, U64(1), WYP0>>, <<WYP3, WYP2, WYP1, WYP0>>}

\* Seeds handed to hash_imp(seed).
SecretSeeds == {U64(1567), U64(1638)}

\* What an uninitialized uint64_t[4] may hold.
Uninit == {<<Zero64, Zero64, Zero64, Zero64>>, <<Ones64, Ones64, Ones64, Ones64>>}

\* Numbers handed to wyhash(number).
HashNumbers == {U64(7), Ones64}

\* The hasher under test and a second hasher constructed the same way.
HashInit ==
    /\ \/ /\ ctor = [kind |-> "default", arg |-> <<>>]
          /\ secret = hash_imp_default
          /\ twin = [secret |-> hash_imp_default]
       \/ \E sd \in SecretSeeds, m1 \in Uninit, m2 \in Uninit :
            /\ ctor = [kind |-> "seed", arg |-> sd]
            /\ secret = hash_imp_seed(sd, m1)
            /\ twin = [secret |-> hash_imp_seed(sd, m2)]
       \/ \E ps \in SecretSamples :
            /\ ctor = [kind |-> "secret", arg |-> ps]
            /\ secret = hash_imp_secret(ps)
            /\ twin = [secret |-> hash_imp_secret(ps)]
    /\ secret0 = secret
    /\ memo = NoRet
    /\ ret = NoRet
    /\ LITTLE \in BOOLEAN /\ SWAPDEF = "portable"
    /\ state = Zero64 /\ seed0 = Zero64 /\ ndraws = 0 /\ pc = "ready"
    /\ vec = <<>> /\ NDEBUG = FALSE
    /\ outs = <<>> /\ threads = <<>> /\ sync = <<>>

HashFrame ==
    UNCHANGED <<state, seed0, ndraws, pc, vec, NDEBUG, LITTLE, SWAPDEF, twin, outs, secret0, ctor, threads, sync>>

\* A hash call returned r: memo keeps the call before it.
Hashed(op, r, input) ==
    /\ secret' = r.secret
    /\ memo' = ret
    /\ ret' = [op |-> op, ok |-> TRUE, val |-> r.val, a |-> input, b |-> <<>>]
    /\ HashFrame

\* h.wyhash(data, len)
HashBytes ==
    \E n \in HashLens :
        Hashed("hash_bytes", hash_imp_wyhash(secret, Buffer(n), LITTLE), Buffer(n))

\* h.wyhash(number)
HashNumber ==
    \E x \in HashNumbers : Hashed("hash_number", hash_imp_wyhash64(secret, x), x)

HashNext ==
    \/ HashBytes
    \/ HashNumber

HashSpec == HashInit /\ [][HashNext]_vars

\* C2: hash calls leave the four secret words as construction left them,
\* and a call repeated with the same input returns the same digest.
C2_HashIsPure ==
    /\ secret = secret0
    /\ (memo.op = ret.op /\ memo.a = ret.a) => memo.val = ret.val

C2_Witness ==
    /\ ret.op = "hash_bytes" /\ memo.op = "hash_bytes"
    /\ Len(ret.a) = 97 /\ memo.a = ret.a
    /\ memo.val = ret.val
    /\ secret = secret0

\* C12: after construction the secret is the four default words for
\* hash_imp(), make_secret(seed) for hash_imp(seed), and a copy of the four
\* supplied words for hash_imp(psecret).
C12_ConstructedSecret ==
    ret.op = "none" =>
        /\ ctor.kind = "default" =>
              secret = << <<47, 100, 189, 120, 100, 29, 118, 160>>,
                          <<219, 40, 180, 160, 209, 126, 3, 231>>,
                          <<227, 198, 136, 156, 240, 106, 188, 142>>,
                          <<195, 76, 55, 117, 204, 101, 153, 88>> >>
        /\ ctor.kind = "seed" =>
              \A mem \in Uninit : secret = make_secret(ctor.arg, mem)
        /\ ctor.kind = "secret" =>
              /\ Len(secret) = 4
              /\ \A i \in 1..4 : secret[i] = ctor.arg[i]

C12_Witness ==
    /\ ret.op = "none"
    /\ ctor.kind = "seed" /\ ctor.arg = U64(1567)
    /\ secret[4] = <<71, 83, 83, 154, 120, 201, 172, 178>>

\* C13: hash_imp::wyhash(data, len) is the core hash of (data, len) with
\* seed 0 and the hasher's secret, and hash_imp::wyhash(number) is the core
\* integer hash of the number and the secret's first word.
C13_WrapperIsCore ==
    /\ ret.op = "hash_bytes" =>
          ret.val = wyhash(ret.a, Len(ret.a), Zero64, secret0, LITTLE)
    /\ ret.op = "hash_number" => ret.val = wyhash64(ret.a, secret0[1])

C13_Witness ==
    /\ ret.op = "hash_number" /\ ret.a = U64(7)
    /\ memo.op = "hash_bytes" /\ Len(memo.a) = 49
    /\ ctor.kind = "seed"
    /\ ret.val # wyhash64(ret.a, secret0[2])

-----------------------------------------------------------------------------
(* wy::hash<T> and its specializations                                      *)

\* Objects in the caller's memory, by address: the first is a StuctTest.
Memory ==
    (U64(4096) :> <<97, 98, 99>>)
    @@ (U64(8192) :> <<0, 16, 0, 0, 0, 0, 0, 0>>)
    @@ (U64(12288) :> Tup([i \in 1..17 |-> (11 * i) % 256]))

\* Character arrays: the terminating NUL, and what lies behind it.
CStrings ==
    {<<0, 120, 0>>, <<97, 110, 0>>,
     <<97, 110, 32, 101, 120, 97, 109, 112, 108, 101, 32, 116, 111, 32, 104,
       97, 115, 104, 0, 33, 33>>}

\* strlen(data)
RECURSIVE strlen_from(_, _)
strlen_from(data, n) == IF data[n + 1] = 0 THEN n ELSE strlen_from(data, n + 1)
strlen(data) == strlen_from(data, 0)

\* Strings and string views: sizeof(value_type) and the code units.
Strings ==
    {[unit |-> u, data |-> d] :
        u \in {1, 2, 4}, d \in {<<>>, <<97>>, <<104, 97, 115, 104, 0, 33>>}}
    \cup {[unit |-> 2, data |-> <<353, 8364, 65>>],
          [unit |-> 4, data |-> <<128512, 353>>]}

\* The bytes of elem.data(): every code unit in the host's byte order, and
\* the storage behind the last one.
RECURSIVE DataBytes(_, _, _)
DataBytes(elem, k, little) ==
    IF k > Len(elem.data) THEN <<0, 0, 0, 0>>
    ELSE LET le == SubSeq(U64(elem.data[k]), 1, elem.unit)
         IN (IF little THEN le ELSE Tup([i \in 1..elem.unit |-> le[elem.unit + 1 - i]]))
            \o DataBytes(elem, k + 1, little)

\* hash<T>::operator()(const T& elem): elem is the object representation.
hash_T(sec, elem, little) == hash_imp_wyhash(sec, elem, little)

\* As hash<T*>::operator(), hashing the pointer instead of the pointee.
hash_ptr_address(sec, mem, elem, little) == hash_imp_wyhash(sec, elem, little)

\* hash<T*>::operator()(const T* elem): the sizeof(T) bytes at elem.
hash_ptr(sec, mem, elem, little) == hash_imp_wyhash(sec, mem[elem], little)

\* As hash<uint64_t>::operator(), through the primary template: the eight
\* bytes of the key as a byte buffer.
hash_u64_generic(sec, number) == hash_imp_wyhash(sec, number, TRUE)

\* hash<uint64_t>::operator() and hash<int64_t>::operator()
hash_u64(sec, number) == hash_imp_wyhash64(sec, number)

\* hash<char*>::operator() and hash<const char*>::operator()
hash_cstr(sec, data, little) ==
    hash_imp_wyhash(sec, SubSeq(data, 1, strlen(data)), little)

\* hash_string_base<STRING_TYPE>::operator()(const STRING_TYPE& elem)
hash_string_base(sec, elem, little) ==
    hash_imp_wyhash(sec,
                    SubSeq(DataBytes(elem, 1, little), 1, elem.unit * Len(elem.data)),
                    little)

AdaptInit ==
    /\ \/ secret = hash_imp_default
       \/ \E sd \in SecretSeeds, m \in Uninit : secret = hash_imp_seed(sd, m)
       \/ \E ps \in SecretSamples : secret = hash_imp_secret(ps)
    /\ secret0 = secret
    /\ ret = NoRet
    /\ LITTLE \in BOOLEAN /\ SWAPDEF = "portable"
    /\ state = Zero64 /\ seed0 = Zero64 /\ ndraws = 0 /\ pc = "ready"
    /\ vec = <<>> /\ NDEBUG = FALSE
    /\ twin = <<>> /\ outs = <<>> /\ memo = <<>> /\ ctor = <<>> /\ threads = <<>> /\ sync = <<>>

\* An adapter call returned r for the key.
Adapted(op, r, key) ==
    /\ secret' = r.secret
    /\ ret' = [op |-> op, ok |-> TRUE, val |-> r.val, a |-> key, b |-> <<>>]
    /\ UNCHANGED <<state, seed0, ndraws, pc, vec, NDEBUG, LITTLE, SWAPDEF, twin, outs,
                   secret0, memo, ctor, threads, sync>>

AdaptObject ==
    \E p \in DOMAIN Memory : Adapted("hash_T", hash_T(secret, Memory[p], LITTLE), Memory[p])

AdaptPointer ==
    \E p \in DOMAIN Memory : Adapted("hash_ptr", hash_ptr(secret, Memory, p, LITTLE), p)

AdaptNumber ==
    \E x \in HashNumbers : Adapted("hash_u64", hash_u64(secret, x), x)

AdaptCString ==
    \E c \in CStrings : Adapted("hash_cstr", hash_cstr(secret, c, LITTLE), c)

AdaptString ==
    \E e \in Strings : Adapted("hash_string", hash_string_base(secret, e, LITTLE), e)

AdaptNext ==
    \/ AdaptObject
    \/ AdaptPointer
    \/ AdaptNumber
    \/ AdaptCString
    \/ AdaptString

AdaptSpec == AdaptInit /\ [][AdaptNext]_vars

\* What a hash_imp with the same secret returns for a byte buffer.
BaseDigest(bytes) == wyhash(bytes, Len(bytes), Zero64, secret0, LITTLE)

-----------------------------------------------------------------------------
\* Threads hashing with one shared hasher.  A call of hash_imp::wyhash is
\* taken apart into the steps at which it reads the shared secret; what it
\* computes in between lives in the thread's own locals.

NThreads == 2
Threads == 1..NThreads

IdleThread ==
    [pc |-> "idle", kind |-> "none", key |-> <<>>, seed |-> Zero64, x |-> <<>>,
     m |-> <<>>, val |-> <<>>, overlapped |-> FALSE]

\* A step that also keeps the salted seed in secret[0].
hash_step_scratch(th, sec, little) ==
    IF th.kind = "number"
    THEN [th |-> [th EXCEPT !.pc = "done", !.val = wyhash64(th.key, sec[1])], secret |-> sec]
    ELSE IF th.pc = "call"
    THEN [th |-> [th EXCEPT !.pc = "salted",
                            !.seed = Xor64(Zero64, wymix(Xor64(Zero64, sec[1]), sec[2]))],
          secret |-> [sec EXCEPT ![1] = Xor64(Zero64, wymix(Xor64(Zero64, sec[1]), sec[2]))]]
    ELSE IF th.pc = "salted"
    THEN [th |-> [th EXCEPT !.pc = "absorbed",
                            !.x = wyhash_absorb(th.key, Len(th.key), th.seed, sec, little)],
          secret |-> sec]
    ELSE IF th.pc = "absorbed"
    THEN [th |-> [th EXCEPT !.pc = "mixed", !.m = wyhash_mum(th.x, sec)], secret |-> sec]
    ELSE [th |-> [th EXCEPT !.pc = "done", !.val = wyhash_finish(th.m, Len(th.key), sec)],
          secret |-> sec]

\* The next step of thread record th's call, reading the secret sec:
\* hash_imp::wyhash(number) is one read of secret[0]; hash_imp::wyhash(data,
\* len) salts the seed 0, absorbs the key, multiplies and finishes.  No step
\* assigns to the secret.
hash_step(th, sec, little) ==
    IF th.kind = "number"
    THEN [th |-> [th EXCEPT !.pc = "done", !.val = wyhash64(th.key, sec[1])], secret |-> sec]
    ELSE IF th.pc = "call"
    THEN [th |-> [th EXCEPT !.pc = "salted",
                            !.seed = Xor64(Zero64, wymix(Xor64(Zero64, sec[1]), sec[2]))],
          secret |-> sec]
    ELSE IF th.pc = "salted"
    THEN [th |-> [th EXCEPT !.pc = "absorbed",
                            !.x = wyhash_absorb(th.key, Len(th.key), th.seed, sec, little)],
          secret |-> sec]
    ELSE IF th.pc = "absorbed"
    THEN [th |-> [th EXCEPT !.pc = "mixed", !.m = wyhash_mum(th.x, sec)], secret |-> sec]
    ELSE [th |-> [th EXCEPT !.pc = "done", !.val = wyhash_finish(th.m, Len(th.key), sec)],
          secret |-> sec]

\* Keys the threads hash.
ThreadKeys == {Buffer(3), Buffer(17)}

ThreadInit ==
    /\ \/ secret = hash_imp_default
       \/ \E ps \in SecretSamples : secret = hash_imp_secret(ps)
    /\ secret0 = secret
    /\ threads = [t \in Threads |-> IdleThread]
    /\ sync = [mode |-> "shared", lock |-> 0]
    /\ LITTLE \in BOOLEAN /\ SWAPDEF = "portable"
    /\ ret = NoRet
    /\ state = Zero64 /\ seed0 = Zero64 /\ ndraws = 0 /\ pc = "ready"
    /\ vec = <<>> /\ NDEBUG = FALSE
    /\ twin = <<>> /\ outs = <<>> /\ memo = <<>> /\ ctor = <<>>

ThreadFrame ==
    UNCHANGED <<state, seed0, ndraws, pc, ret, vec, NDEBUG, LITTLE, SWAPDEF, twin, outs,
                secret0, memo, ctor, sync>>

InCall(th) == th.pc \notin {"idle", "done"}

\* Thread t enters hash_imp::wyhash with a key of its own.
ThreadCall(t) ==
    /\ threads[t].pc = "idle"
    /\ \E k \in [kind : {"bytes"}, key : ThreadKeys] \cup [kind : {"number"}, key : HashNumbers] :
          threads' = [threads EXCEPT ![t] =
                         [IdleThread EXCEPT !.pc = "call", !.kind = k.kind, !.key = k.key,
                                            !.overlapped = \E o \in Threads \ {t} : InCall(threads[o])]]
    /\ UNCHANGED secret
    /\ ThreadFrame

\* Thread t takes the next step of its call.
ThreadStep(t) ==
    /\ InCall(threads[t])
    /\ threads' = [threads EXCEPT ![t] = hash_step(threads[t], secret, LITTLE).th]
    /\ secret' = hash_step(threads[t], secret, LITTLE).secret
    /\ ThreadFrame

ThreadNext == \E t \in Threads : ThreadCall(t) \/ ThreadStep(t)

ThreadSpec == ThreadInit /\ [][ThreadNext]_vars

\* C15: the hash engine is reentrant.  Whatever the interleaving of the
\* threads' steps on one shared hasher, the secret is never written and
\* every finished call returned the digest the same call returns alone.
C15_HashIsReentrant ==
    /\ secret = secret0
    /\ \A t \in Threads :
          threads[t].pc = "done" =>
              threads[t].val =
                  IF threads[t].kind = "number"
                  THEN hash_imp_wyhash64(secret0, threads[t].key).val
                  ELSE hash_imp_wyhash(secret0, threads[t].key, LITTLE).val

C15_Witness ==
    /\ \A t \in Threads : threads[t].pc = "done" /\ threads[t].kind = "bytes"
    /\ threads[1].key # threads[2].key
    /\ \E t \in Threads : threads[t].overlapped

-----------------------------------------------------------------------------
\* Two threads drawing from wy::rand.  operator()() is wyrand(&state): a
\* load of the state word, a store of the word plus the constant, and the
\* fold of the new word.  Unsynchronized calls on one instance are a data
\* race, so the steps of the two calls interleave freely, and the fold reads
\* either the word the thread stored or the word now in memory.

RaceDraws == 2
RaceThreads == {1, 2}
RaceSeeds == {Zero64, U64(1)}

\* "shared": one instance, no coordination; "own": one instance per thread;
\* "mutex": one instance, each call made under a lock.
RaceModes == {"shared", "own", "mutex"}

\* Every thread on the first instance, whatever the mode.
ObjOf_first(mode, t) == 1

\* The instance thread t draws from.
ObjOf(mode, t) == IF mode = "own" THEN t ELSE 1

\* The next step of the call of thread record th on a state word st.
rand_step(th, st, reload) ==
    IF th.pc = "load"
    THEN [th |-> [th EXCEPT !.pc = "store", !.tmp = st], state |-> st]
    ELSE IF th.pc = "store"
    THEN [th |-> [th EXCEPT !.pc = "mix", !.reg = Add64(th.tmp, WYP0)],
          state |-> Add64(th.tmp, WYP0)]
    ELSE [th |-> [th EXCEPT !.pc = "idle",
                            !.vals = Append(th.vals,
                                            IF reload THEN wymix(st, Xor64(st, WYP1))
                                            ELSE wymix(th.reg, Xor64(th.reg, WYP1)))],
          state |-> st]

RaceInit ==
    /\ seed0 \in RaceSeeds
    /\ state = rand_seed(seed0)
    /\ \E s \in RaceSeeds : twin = [seed |-> s, state |-> rand_seed(s), outs |-> <<>>]
    /\ threads = [t \in RaceThreads |->
                     [pc |-> "idle", tmp |-> Zero64, reg |-> Zero64, vals |-> <<>>]]
    /\ \E md \in RaceModes : sync = [mode |-> md, lock |-> 0]
    /\ ndraws = 0 /\ pc = "ready" /\ ret = NoRet
    /\ vec = <<>> /\ NDEBUG = FALSE /\ LITTLE = TRUE /\ SWAPDEF = "portable"
    /\ outs = <<>> /\ secret = <<>> /\ secret0 = <<>> /\ memo = <<>> /\ ctor = <<>>

RaceFrame ==
    UNCHANGED <<seed0, ndraws, pc, ret, vec, NDEBUG, LITTLE, SWAPDEF, outs, secret, secret0,
                memo, ctor>>

ObjState(o) == IF o = 1 THEN state ELSE twin.state

ObjSeed(o) == IF o = 1 THEN seed0 ELSE twin.seed

\* Thread t enters operator()(), taking the lock first where there is one.
RaceCall(t) ==
    /\ threads[t].pc = "idle"
    /\ Len(threads[t].vals) < RaceDraws
    /\ sync.mode = "mutex" => sync.lock = 0
    /\ threads' = [threads EXCEPT ![t].pc = "load"]
    /\ sync' = IF sync.mode = "mutex" THEN [sync EXCEPT !.lock = t] ELSE sync
    /\ UNCHANGED <<state, twin>>
    /\ RaceFrame

\* Thread t takes the next step of its call; returning releases the lock.
RaceStep(t) ==
    /\ threads[t].pc # "idle"
    /\ \E reload \in BOOLEAN :
          /\ threads' = [threads EXCEPT ![t] =
                            rand_step(threads[t], ObjState(ObjOf(sync.mode, t)), reload).th]
          /\ IF ObjOf(sync.mode, t) = 1
             THEN /\ state' = rand_step(threads[t], state, reload).state
                  /\ UNCHANGED twin
             ELSE /\ twin' = [twin EXCEPT !.state =
                                 rand_step(threads[t], twin.state, reload).state]
                  /\ UNCHANGED state
    /\ sync' = IF sync.mode = "mutex" /\ threads[t].pc = "mix"
               THEN [sync EXCEPT !.lock = 0] ELSE sync
    /\ RaceFrame

RaceNext == \E t \in RaceThreads : RaceCall(t) \/ RaceStep(t)

RaceSpec == RaceInit /\ [][RaceNext]_vars

\* The threads drawing from instance o.
UsersOf(o) == {t \in RaceThreads : ObjOf(sync.mode, t) = o}

\* The draws returned so far from instance o.
ReturnedOn(o) ==
    UNION {{threads[t].vals[i] : i \in 1..Len(threads[t].vals)} : t \in UsersOf(o)}

FinishedOn(o, t) == IF t \in UsersOf(o) THEN Len(threads[t].vals) ELSE 0

StoredOn(o, t) == IF t \in UsersOf(o) /\ threads[t].pc = "mix" THEN 1 ELSE 0

\* C16: the random engine is not reentrant.  Two threads that call one
\* instance with no coordination reach a state where the state word advanced
\* once and both calls returned the same draw (C16_Witness).  With one
\* instance per thread, or with every call made under a mutex, no update is
\* lost: each instance's state word advanced once per call made on it, and
\* the calls returned the instance's successive draws, each exactly once.
C16_NoLostUpdateWhenCoordinated ==
    sync.mode # "shared" =>
        \A o \in RaceThreads :
            /\ ObjState(o) =
                   StateAfter(ObjSeed(o), FinishedOn(o, 1) + FinishedOn(o, 2)
                                          + StoredOn(o, 1) + StoredOn(o, 2))
            /\ ReturnedOn(o) =
                   {DrawNo(ObjSeed(o), k) : k \in 1..(FinishedOn(o, 1) + FinishedOn(o, 2))}
            /\ Cardinality(ReturnedOn(o)) = FinishedOn(o, 1) + FinishedOn(o, 2)

C16_Witness ==
    /\ sync.mode = "shared"
    /\ \A t \in RaceThreads : threads[t].pc = "idle" /\ Len(threads[t].vals) = 1
    /\ threads[1].vals = threads[2].vals
    /\ state = StateAfter(seed0, 1)

-----------------------------------------------------------------------------
\* Claims about the hasher's byte order and its secret, on HashSpec.

\* C17: the digest of a byte buffer is the same on a little-endian and on a
\* big-endian host: the host of the call and the host of the other byte
\* order return the same digest, because each 8-byte and 4-byte load, raw
\* and then byte-swapped on the big-endian host, is the word the
\* little-endian host loads.
C17_SameDigestOnBothHosts ==
    ret.op = "hash_bytes" =>
        /\ ret.val = hash_imp_wyhash(secret0, ret.a, ~LITTLE).val
        /\ \A o \in 0..(Len(ret.a) - 8) : wyr8(ret.a, o, FALSE) = wyr8(ret.a, o, TRUE)
        /\ \A o \in 0..(Len(ret.a) - 4) : wyr4(ret.a, o, FALSE) = wyr4(ret.a, o, TRUE)

C17_Witness ==
    /\ ret.op = "hash_bytes" /\ ~LITTLE /\ Len(ret.a) = 97
    /\ HostLoad(ret.a, 0, 8, FALSE) # HostLoad(ret.a, 0, 8, TRUE)
    /\ ret.val = hash_imp_wyhash(secret0, ret.a, TRUE).val

\* C18: make_secret is deterministic.  Whatever the member array held
\* before, hash_imp(seed) leaves the same four words, so a second hasher
\* constructed from the same seed holds the same secret and returns the same
\* digest for the input of every call.
C18_SameSeedSameSecret ==
    ctor.kind = "seed" =>
        /\ twin.secret = secret0
        /\ \A mem \in Uninit : hash_imp_seed(ctor.arg, mem) = secret0
        /\ ret.op = "hash_bytes" => hash_imp_wyhash(twin.secret, ret.a, LITTLE).val = ret.val
        /\ ret.op = "hash_number" => hash_imp_wyhash64(twin.secret, ret.a).val = ret.val

C18_Witness ==
    /\ ctor.kind = "seed" /\ ctor.arg = U64(1638)
    /\ ret.op = "hash_bytes" /\ Len(ret.a) = 49
    /\ twin.secret = secret
    /\ hash_imp_wyhash(twin.secret, ret.a, LITTLE).val = ret.val

\* Set bits of the i-th word of sec, as make_secret leaves them: 32, the
\* eight candidate bytes having four each.
InBand(sec, i) == popcount(sec[i]) = 32

\* What make_secret checks of the i-th word of sec before it keeps it.
Validated(sec, i) ==
    /\ sec[i][1] % 2 = 1
    /\ \A j \in 1..(i - 1) : popcount(Xor64(sec[j], sec[i])) = 32

\* C19: each of the four words make_secret(seed) returns has its count of
\* set bits in the accepted band, and passed the validation: no word
\* that fails it is part of the secret.
C19_SeedSecretIsValid ==
    ctor.kind = "seed" =>
        \A i \in 1..4 : InBand(secret, i) /\ Validated(secret, i)

C19_Witness ==
    /\ ctor.kind = "seed" /\ ctor.arg = U64(1567) /\ ret.op = "none"
    /\ \A i \in 1..4 : InBand(secret, i) /\ Validated(secret, i)
    /\ LET first == make_secret_try(ctor.arg, secret, 0)
           second == make_secret_try(first.seed, secret, 1)
       IN /\ first.i = 1 /\ first.secret[1] = secret[1]
          /\ second.i = 1 /\ ~Validated(second.secret, 2)
          /\ second.secret[2] # secret[2]

\* C20 as claimed: the secret of every constructed hasher satisfies the
\* Secret invariant, each word's count of set bits in the validated range,
\* whether the hasher was constructed by default, from a seed or from four
\* words of the caller.
C20_SecretInvariant == \A i \in 1..4 : InBand(secret, i)

-----------------------------------------------------------------------------
\* make_secret pass by pass, with the bound on the passes spent on one word
\* that its description asks for.  threads[1] holds the locals of the
\* constructing thread: the running seed, the index i of the word being drawn
\* and the passes that failed for it.

MaxTries == 100

\* 1 and 11 pass every word within the bound, 2 needs 129 passes for its
\* last word, 1567 is the seed of the hasher claims.
TrySeeds == {U64(1), U64(2), U64(11), U64(1567)}

\* As a pass, with the failed passes never counted.
make_secret_step_uncounted(g, arr) ==
    [g |-> [seed |-> make_secret_try(g.seed, arr, g.i).seed,
            i |-> make_secret_try(g.seed, arr, g.i).i,
            tries |-> 0],
     secret |-> make_secret_try(g.seed, arr, g.i).secret,
     pc |-> IF make_secret_try(g.seed, arr, g.i).i = 4 THEN "done" ELSE "ready"]

\* One pass of make_secret with locals g over the array arr: a fatal error
\* once MaxTries passes failed for the word, else the word is drawn again
\* and kept when it passes the checks.
make_secret_step(g, arr) ==
    IF g.tries >= MaxTries
    THEN [g |-> g, secret |-> arr, pc |-> "aborted"]
    ELSE [g |-> [seed |-> make_secret_try(g.seed, arr, g.i).seed,
                 i |-> make_secret_try(g.seed, arr, g.i).i,
                 tries |-> IF make_secret_try(g.seed, arr, g.i).i = g.i
                           THEN g.tries + 1 ELSE 0],
          secret |-> make_secret_try(g.seed, arr, g.i).secret,
          pc |-> IF make_secret_try(g.seed, arr, g.i).i = 4 THEN "done" ELSE "ready"]

\* hash_imp(seed) enters make_secret(seed, secret) over an unset array.
SecretInit ==
    /\ \E sd \in TrySeeds, mem \in Uninit :
          /\ ctor = [kind |-> "seed", arg |-> sd]
          /\ secret = mem
          /\ secret0 = mem
          /\ threads = <<[seed |-> sd, i |-> 0, tries |-> 0]>>
    /\ pc = "ready"
    /\ ndraws = 0
    /\ ret = [op |-> "make_secret", ok |-> TRUE, val |-> <<>>, a |-> 0, b |-> 0]
    /\ state = Zero64 /\ seed0 = Zero64
    /\ vec = <<>> /\ NDEBUG = FALSE /\ LITTLE = TRUE /\ SWAPDEF = "portable"
    /\ twin = <<>> /\ outs = <<>> /\ memo = <<>> /\ sync = <<>>

\* A pass returned r.
Passed(r) ==
    /\ threads' = <<r.g>>
    /\ secret' = r.secret
    /\ pc' = r.pc
    /\ ndraws' = IF r.pc = "aborted" THEN ndraws
                 ELSE IF r.g.i = threads[1].i THEN ndraws + 1 ELSE 0
    /\ ret' = IF r.pc = "aborted" THEN [ret EXCEPT !.ok = FALSE]
              ELSE [ret EXCEPT !.a = @ + 1,
                               !.b = IF r.g.i = threads[1].i THEN @ + 1 ELSE @]

\* The next pass.  ndraws counts the passes that failed for the word being
\* drawn, ret.a the passes made and ret.b those that failed.
SecretPass ==
    /\ pc = "ready"
    /\ Passed(make_secret_step(threads[1], secret))
    /\ UNCHANGED <<state, seed0, vec, NDEBUG, LITTLE, SWAPDEF, twin, outs, secret0, memo,
                   ctor, sync>>

SecretNext == SecretPass

SecretSpec == SecretInit /\ [][SecretNext]_vars

\* The passes make_secret can still make: those left for the word being
\* drawn and all those of the words after it.
PassesLeft ==
    IF pc = "ready"
    THEN ((3 - threads[1].i) * (MaxTries + 1)) + (MaxTries - threads[1].tries) + 1
    ELSE 0

-----------------------------------------------------------------------------
\* The bytes a hash call reads.  The buffer lies in memory followed by bytes
\* that are not part of it; the indices of the bytes the loads of ::wyhash
\* touch are collected branch by branch, next to the digest.

MaxLen == 100

\* The bytes of an n-byte load at offset o.
LoadIdx(o, n) == o..(o + n - 1)

\* _wyr3(p, k) reads p[0], p[k >> 1] and p[k - 1].
Reads3(k) == {0, k \div 2, k - 1}

\* The four _wyr4 loads of a key of 4 to 16 bytes.
Reads4(len) ==
    LoadIdx(0, 4) \cup LoadIdx((len \div 8) * 4, 4) \cup LoadIdx(len - 4, 4)
        \cup LoadIdx(len - 4 - ((len \div 8) * 4), 4)

\* The blocks of 16 while more than 16 bytes remain, then the last 16 bytes.
RECURSIVE Reads16(_, _)
Reads16(p, i) ==
    IF i > 16 THEN LoadIdx(p, 8) \cup LoadIdx(p + 8, 8) \cup Reads16(p + 16, i - 16)
    ELSE LoadIdx(p + i - 16, 8) \cup LoadIdx(p + i - 8, 8)

\* The blocks of 48 while more than 48 bytes remain, then the blocks of 16.
RECURSIVE Reads48(_, _)
Reads48(p, i) ==
    IF i > 48
    THEN LoadIdx(p, 8) \cup LoadIdx(p + 8, 8) \cup LoadIdx(p + 16, 8) \cup LoadIdx(p + 24, 8)
            \cup LoadIdx(p + 32, 8) \cup LoadIdx(p + 40, 8) \cup Reads48(p + 48, i - 48)
    ELSE Reads16(p, i)

\* The byte indices ::wyhash(key, len, ..) reads.
wyhash_reads(len) ==
    IF len > 48 THEN LoadIdx(0, 48) \cup Reads48(48, len - 48)
    ELSE IF len > 16 THEN Reads16(0, len)
    ELSE IF len >= 4 THEN Reads4(len)
    ELSE IF len > 0 THEN Reads3(len)
    ELSE {}

\* Bytes that follow the buffer in memory.
GuardA == <<0, 0, 0, 0, 0, 0, 0, 0, 0, 0, 0, 0, 0, 0, 0, 0>>
GuardB == <<255, 254, 253, 252, 251, 250, 249, 248, 247, 246, 245, 244, 243, 242, 241, 240>>

\* The buffer with byte k (from 0) changed.
Flip(key, k) == Tup([i \in 1..Len(key) |-> IF i = k + 1 THEN (key[i] + 1) % 256 ELSE key[i]])

ReadInit ==
    /\ secret = hash_imp_default
    /\ secret0 = secret
    /\ LITTLE \in BOOLEAN /\ SWAPDEF = "portable"
    /\ ret = NoRet
    /\ state = Zero64 /\ seed0 = Zero64 /\ ndraws = 0 /\ pc = "ready"
    /\ vec = <<>> /\ NDEBUG = FALSE
    /\ twin = <<>> /\ outs = <<>> /\ memo = <<>> /\ ctor = <<>> /\ threads = <<>> /\ sync = <<>>

\* h.wyhash(data, n) on a buffer followed by GuardA: the digest, and the
\* byte indices read.
ReadHash ==
    \E n \in 0..MaxLen :
        /\ ret' = [op |-> "hash_reads", ok |-> TRUE,
                   val |-> wyhash(Buffer(n) \o GuardA, n, Zero64, secret, LITTLE),
                   a |-> Buffer(n), b |-> wyhash_reads(n)]
        /\ UNCHANGED <<state, seed0, ndraws, pc, vec, NDEBUG, LITTLE, SWAPDEF, twin, outs, secret,
                       secret0, memo, ctor, threads, sync>>

ReadNext == ReadHash

ReadSpec == ReadInit /\ [][ReadNext]_vars

\* C22: every byte index hash(data, len) reads lies in [0, len), in every
\* length class; len = 0 reads no byte; and the digest does not depend on
\* the bytes that follow the buffer in memory.
C22_ReadsInsideBuffer ==
    ret.op = "hash_reads" =>
        /\ ret.b \subseteq 0..(Len(ret.a) - 1)
        /\ Len(ret.a) = 0 => ret.b = {}
        /\ ret.val = wyhash(ret.a \o GuardB, Len(ret.a), Zero64, secret, LITTLE)

C22_Witness ==
    /\ ret.op = "hash_reads" /\ Len(ret.a) = 17
    /\ ret.b = 0..16
    /\ ret.val = wyhash(ret.a \o GuardB, 17, Zero64, secret, LITTLE)

\* C29: for each len > 0 every input byte is read by at least one load,
\* in every length class: the indices read cover 0 .. len-1, and changing
\* any one byte of the buffer changes the digest.
C29_EveryByteIsRead ==
    (ret.op = "hash_reads" /\ Len(ret.a) > 0) =>
        /\ 0..(Len(ret.a) - 1) \subseteq ret.b
        /\ \A k \in 0..(Len(ret.a) - 1) :
              wyhash(Flip(ret.a, k) \o GuardA, Len(ret.a), Zero64, secret, LITTLE) # ret.val

C29_Witness ==
    /\ ret.op = "hash_reads" /\ Len(ret.a) = 3
    /\ ret.b = {0, 1, 2}
    /\ wyhash(Flip(ret.a, 1) \o GuardA, 3, Zero64, secret, LITTLE) # ret.val

-----------------------------------------------------------------------------
\* The multiply-and-fold, directly and as a 32-bit target computes it.

\* The two 32-bit halves of a word, and the 64-bit product of two halves.
Hi32(A) == SubSeq(A, 5, 8)
Lo32(A) == SubSeq(A, 1, 4)
Mul32(x, y) == BMul(x, y)

\* As the sum of the partial products, with the carries dropped.
Mum32Fold_nocarry(rh, rm0, rm1, t, lo, c) ==
    [lo |-> lo, hi |-> Add64(Add64(rh, Shr64(rm0, 32)), Shr64(rm1, 32))]

\* lo = t + (rm1 << 32); c += lo < t; hi = rh + (rm0 >> 32) + (rm1 >> 32) + c
Mum32Fold(rh, rm0, rm1, t, lo, c) ==
    [lo |-> lo,
     hi |-> Add64(Add64(Add64(rh, Shr64(rm0, 32)), Shr64(rm1, 32)),
                  U64(c + (IF BCmp(lo, t) < 0 THEN 1 ELSE 0)))]

\* t = rl + (rm0 << 32); c = t < rl
Mum32Sum(rh, rm0, rm1, rl, t) ==
    Mum32Fold(rh, rm0, rm1, t, Add64(t, Shl64(rm1, 32)), IF BCmp(t, rl) < 0 THEN 1 ELSE 0)

\* _wymum without a 128-bit type: rh = ha * hb, rm0 = ha * lb, rm1 = hb * la,
\* rl = la * lb, summed with carry propagation.
wymum_32(A, B) ==
    Mum32Sum(Mul32(Hi32(A), Hi32(B)), Mul32(Hi32(A), Lo32(B)), Mul32(Hi32(B), Lo32(A)),
             Mul32(Lo32(A), Lo32(B)),
             Add64(Mul32(Lo32(A), Lo32(B)), Shl64(Mul32(Hi32(A), Lo32(B)), 32)))

wymix_32(A, B) == Xor64(wymum_32(A, B).lo, wymum_32(A, B).hi)

\* 0, 1, the words around 2^32, 2^63, 2^64 - 1, the halves set apart, and
\* three of the default secret words.
MumWords ==
    {Zero64, U64(1), Ones64, WYP0, WYP1, WYP2,
     <<255, 255, 255, 255, 0, 0, 0, 0>>, <<0, 0, 0, 0, 1, 0, 0, 0>>,
     <<1, 0, 0, 0, 1, 0, 0, 0>>, <<0, 0, 0, 0, 0, 0, 0, 128>>,
     <<0, 0, 0, 0, 255, 255, 255, 255>>, <<255, 255, 255, 255, 1, 0, 0, 0>>}

MumInit ==
    /\ ret = NoRet
    /\ memo = NoRet
    /\ state = Zero64 /\ seed0 = Zero64 /\ ndraws = 0 /\ pc = "ready"
    /\ vec = <<>> /\ NDEBUG = FALSE /\ LITTLE = TRUE /\ SWAPDEF = "portable"
    /\ twin = <<>> /\ outs = <<>> /\ secret = <<>> /\ secret0 = <<>>
    /\ ctor = <<>> /\ threads = <<>> /\ sync = <<>>

\* _wymix(A, B) on a 64-bit target (ret) and on a 32-bit target (memo).
Mix ==
    \E A \in MumWords, B \in MumWords :
        /\ ret' = [op |-> "wymix", ok |-> TRUE, val |-> wymix(A, B), a |-> A, b |-> B]
        /\ memo' = [op |-> "wymix_32", ok |-> TRUE, val |-> wymix_32(A, B), a |-> A, b |-> B]
        /\ UNCHANGED <<state, seed0, ndraws, pc, vec, NDEBUG, LITTLE, SWAPDEF, twin, outs, secret,
                       secret0, ctor, threads, sync>>

MumNext == Mix

MumSpec == MumInit /\ [][MumNext]_vars

\* The limbs w[1..i] of w modulo p, most significant first.
RECURSIVE ModP(_, _, _, _)
ModP(w, i, acc, p) == IF i = 0 THEN acc ELSE ModP(w, i - 1, ((acc * 256) + w[i]) % p, p)

\* P is congruent to A * B modulo p.
ProductMod(P, A, B, p) == ModP(P, Len(P), 0, p) = (ModP(A, 8, 0, p) * ModP(B, 8, 0, p)) % p

\* C23: _wymix(a, b) is the high 64 bits XOR the low 64 bits of the full
\* 128-bit product a * b (the product checked by its residues and its low
\* byte), and the computation from four 32 x 32 partial products with carry
\* propagation gives the same two halves and the same fold.
C23_MixIsFoldedProduct ==
    ret.op = "wymix" =>
        /\ ret.val = Xor64(wymum(ret.a, ret.b).hi, wymum(ret.a, ret.b).lo)
        /\ \A p \in {32749, 32719, 32717} :
              ProductMod(wymum(ret.a, ret.b).lo \o wymum(ret.a, ret.b).hi, ret.a, ret.b, p)
        /\ wymum(ret.a, ret.b).lo[1] = (ret.a[1] * ret.b[1]) % 256
        /\ wymum_32(ret.a, ret.b) = wymum(ret.a, ret.b)
        /\ memo.val = ret.val

C23_Witness ==
    /\ ret.op = "wymix" /\ ret.a = Ones64 /\ ret.b = Ones64
    /\ memo.op = "wymix_32" /\ memo.val = ret.val
    /\ wymum_32(ret.a, ret.b).hi = <<254, 255, 255, 255, 255, 255, 255, 255>>

-----------------------------------------------------------------------------
\* The state word as a counter.

\* The state n draws after s, n a number of any length: s + n * C mod 2^64.
Jump(s, n) == Add64(s, Low(BMul(n, WYP0), 8))

\* The word D with C * D = 1 modulo 2^64.
WYP0_inverse == <<207, 98, 30, 175, 228, 114, 156, 147>>

\* 2^k as a word, and 2^64.
PowWord(k) == Shl64(U64(1), k)
Pow64 == <<0, 0, 0, 0, 0, 0, 0, 0, 1>>

\* C24: the generator is a full-period counter.  After n draws from seed s
\* the state is s + n * C modulo 2^64 with C the one odd constant; C has an
\* inverse modulo 2^64, so the states s + n * C for n below 2^64 are all
\* different: the state is back at s after 2^64 draws and, as for every
\* n = 2^k with k < 64, not before.
C24_FullPeriodCounter ==
    /\ state = Jump(seed0, U64(ndraws))
    /\ WYP0[1] % 2 = 1
    /\ Low(BMul(WYP0, WYP0_inverse), 8) = U64(1)
    /\ \A k \in 0..63 : Jump(seed0, PowWord(k)) # seed0
    /\ Jump(seed0, Pow64) = seed0
    /\ ndraws > 0 => state # seed0

C24_Witness ==
    /\ ret.op = "draw" /\ ndraws = MaxDraws /\ seed0 = Ones64
    /\ state = Jump(seed0, U64(MaxDraws))
    /\ state # seed0

-----------------------------------------------------------------------------
\* byteswap64 as each build of a big-endian host defines it: the macro over
\* std::byteswap where the library has it, over the compiler's intrinsic
\* with GCC, Clang, the Intel compiler or MSVC, and the function otherwise.

SwapDefs == {"std", "builtin", "msvc", "portable"}

\* std::byteswap, __builtin_bswap64, _byteswap_uint64: the bytes reversed.
std_byteswap(v) == bswap64(v)

\* byteswap64(v) where the caller has a variable x in scope.  The macro
\* #define byteswap64(v) std::byteswap(x) names x in its body, not its
\* parameter v.
byteswap64_of(def, v, x) ==
    IF def = "std" THEN std_byteswap(x)
    ELSE IF def \in {"builtin", "msvc"} THEN std_byteswap(v)
    ELSE byteswap64(v)

\* The value of TEST(wyrand, Byteswap), and words with all bytes alike, one
\* byte set, and mixed bytes.
SwapWords ==
    {<<8, 7, 6, 5, 4, 3, 2, 1>>, Zero64, Ones64, U64(1), WYP0, WYP1,
     <<0, 0, 0, 0, 0, 0, 0, 128>>, <<255, 255, 255, 255, 0, 0, 0, 0>>}

\* What a variable named x may hold at the place of the call.
SwapScope == {Zero64, <<8, 7, 6, 5, 4, 3, 2, 1>>, <<1, 2, 3, 4, 5, 6, 7, 8>>, WYP2}

SwapInit ==
    /\ SWAPDEF \in SwapDefs
    /\ LITTLE = FALSE
    /\ ret = NoRet
    /\ memo = NoRet
    /\ state = Zero64 /\ seed0 = Zero64 /\ ndraws = 0 /\ pc = "ready"
    /\ vec = <<>> /\ NDEBUG = FALSE
    /\ twin = <<>> /\ outs = <<>> /\ secret = <<>> /\ secret0 = <<>>
    /\ ctor = <<>> /\ threads = <<>> /\ sync = <<>>

\* swap64 = byteswap64(val64) (ret), then byteswap64(swap64) (memo), with x
\* in scope.
Byteswap ==
    \E v \in SwapWords, x \in SwapScope :
        /\ ret' = [op |-> "byteswap64", ok |-> TRUE, val |-> byteswap64_of(SWAPDEF, v, x),
                   a |-> v, b |-> x]
        /\ memo' = [op |-> "byteswap64", ok |-> TRUE,
                    val |-> byteswap64_of(SWAPDEF, byteswap64_of(SWAPDEF, v, x), x),
                    a |-> byteswap64_of(SWAPDEF, v, x), b |-> x]
        /\ UNCHANGED <<state, seed0, ndraws, pc, vec, NDEBUG, LITTLE, SWAPDEF, twin, outs,
                       secret, secret0, ctor, threads, sync>>

SwapNext == Byteswap

SwapSpec == SwapInit /\ [][SwapNext]_vars

\* C25 as claimed: byteswap64 reverses the byte order, byte 7 - i of
\* byteswap64(v) being byte i of v, and byteswap64(byteswap64(v)) = v.
C25_ByteswapReverses ==
    ret.op = "byteswap64" =>
        /\ \A i \in 0..7 : ret.val[(7 - i) + 1] = ret.a[i + 1]
        /\ memo.val = ret.a

-----------------------------------------------------------------------------
\* C26: a call of uniform_dist(lo, hi) with hi <= lo or of
\* gaussian_dist(mean, std) with std <= 0 that stops in its assertion leaves
\* the state word as it was before the call: the check precedes the draw, so
\* the failed call consumed no raw draw.
C26_FailedCallDrawsNothing ==
    [][pc' = "aborted" =>
          /\ ~ret'.ok /\ ret'.op \in {"uniform_range", "gaussian_ms"}
          /\ state' = state
          /\ state' = StateAfter(seed0, ndraws)]_vars

C26_Witness ==
    /\ pc = "aborted" /\ ret.op = "uniform_range" /\ ~ret.ok
    /\ ~DLt(ret.a, ret.b)
    /\ ndraws = 2 /\ state = StateAfter(seed0, 2)

-----------------------------------------------------------------------------
\* The number of words generate_stream draws, over the whole range of size_t.

\* Sizes from 0 up, and the sizes just below 2^64.
SizeWords == {U64(n) : n \in 0..63} \cup {BSub(Ones64, U64(k)) : k \in 0..39}

SizeInit ==
    /\ ret = NoRet
    /\ state = Zero64 /\ seed0 = Zero64 /\ ndraws = 0 /\ pc = "ready"
    /\ vec = <<>> /\ NDEBUG = FALSE /\ LITTLE = TRUE /\ SWAPDEF = "portable"
    /\ twin = <<>> /\ outs = <<>> /\ secret = <<>> /\ secret0 = <<>> /\ memo = <<>>
    /\ ctor = <<>> /\ threads = <<>> /\ sync = <<>>

\* size_t sizeOf64 = (size + sizeof(uint64_t) - 1) / sizeof(uint64_t)
SizeOf ==
    \E size \in SizeWords :
        /\ ret' = [op |-> "sizeOf64", ok |-> TRUE, val |-> sizeOf64(size), a |-> size,
                   b |-> <<>>]
        /\ UNCHANGED <<state, seed0, ndraws, pc, vec, NDEBUG, LITTLE, SWAPDEF, twin, outs,
                       secret, secret0, memo, ctor, threads, sync>>

SizeNext == SizeOf

SizeSpec == SizeInit /\ [][SizeNext]_vars

\* ceil(size / 8), computed without a sum that can wrap.
CeilDiv8(size) == Add64(Shr64(size, 3), IF size[1] % 8 = 0 THEN Zero64 ELSE U64(1))

\* C27 as claimed: for every size of size_t, the sizes within 7 of the
\* maximum included, (size + 7) / 8 in size_t arithmetic is ceil(size / 8),
\* so the words drawn hold at least size bytes and no returned byte is a
\* zero filler.
C27_WordsCoverEverySize ==
    ret.op = "sizeOf64" =>
        /\ ret.val = CeilDiv8(ret.a)
        /\ BCmp(BMul(ret.val, U64(8)), ret.a) >= 0

-----------------------------------------------------------------------------
\* Two stream calls in a row on one generator, next to one call for the sum
\* of the sizes on a second generator with the same seed.

ComposeInit ==
    /\ seed0 \in StreamSeeds
    /\ state = rand_seed(seed0)
    /\ twin = [seed |-> seed0, state |-> rand_seed(seed0), outs |-> <<>>]
    /\ outs = <<>>
    /\ pc = "ready"
    /\ ret = [op |-> "split", ok |-> TRUE, val |-> <<>>, a |-> 0, b |-> 0]
    /\ ndraws = 0
    /\ vec = <<>> /\ NDEBUG = FALSE
    /\ LITTLE \in BOOLEAN /\ SWAPDEF = "portable"
    /\ secret = <<>> /\ secret0 = <<>> /\ memo = <<>>
    /\ ctor = <<>> /\ threads = <<>> /\ sync = <<>>

ComposeFrame ==
    UNCHANGED <<seed0, ndraws, vec, NDEBUG, LITTLE, SWAPDEF, secret, secret0, memo, ctor,
                threads, sync>>

\* r.generate_stream(a)
ComposeFirst ==
    /\ pc = "ready"
    /\ \E a \in 0..MaxSize :
          /\ state' = generate_stream(state, a, LITTLE).state
          /\ outs' = generate_stream(state, a, LITTLE).vec
          /\ ret' = [ret EXCEPT !.a = a]
    /\ pc' = "first"
    /\ UNCHANGED twin
    /\ ComposeFrame

\* r.generate_stream(b), and r0.generate_stream(a + b)
ComposeSecond ==
    /\ pc = "first"
    /\ \E b \in 0..(MaxSize - ret.a) :
          /\ state' = generate_stream(state, b, LITTLE).state
          /\ outs' = outs \o generate_stream(state, b, LITTLE).vec
          /\ twin' = [twin EXCEPT
                         !.state = generate_stream(twin.state, ret.a + b, LITTLE).state,
                         !.outs = generate_stream(twin.state, ret.a + b, LITTLE).vec]
          /\ ret' = [ret EXCEPT !.b = b]
    /\ pc' = "second"
    /\ ComposeFrame

ComposeNext ==
    \/ ComposeFirst
    \/ ComposeSecond

ComposeSpec == ComposeInit /\ [][ComposeNext]_vars

\* C28: stream calls compose on word boundaries.  From the same starting
\* state, generate_stream(a) followed by generate_stream(b) gives the same
\* a + b bytes and the same final state as one generate_stream(a + b)
\* whenever a is a multiple of 8; a first call that stops inside a word,
\* followed by a non-empty second one, does not.
C28_StreamsComposeOnWords ==
    /\ (pc = "second" /\ ret.a % 8 = 0) =>
          /\ outs = twin.outs
          /\ Len(outs) = ret.a + ret.b
          /\ state = twin.state
    /\ (pc = "second" /\ ret.a % 8 # 0 /\ ret.b > 0) =>
          (outs # twin.outs \/ state # twin.state)

C28_Witness ==
    /\ pc = "second" /\ ret.a = 8 /\ ret.b = 3
    /\ Len(outs) = 11 /\ outs = twin.outs
    /\ state = twin.state /\ state = StateAfter(seed0, 2)

-----------------------------------------------------------------------------
\* Two hashers built from caller secrets, called with the same keys.

\* The uint64_t an int64_t argument converts to (modulo 2^64).
to_uint64(n) == IF n < 0 THEN BSub(Ones64, U64(-n - 1)) ELSE U64(n)

\* hash<int64_t>::operator()(int64_t number)
hash_i64(sec, n) == hash_u64(sec, to_uint64(n))

\* Words 1..3 of the second hasher's secret.
PairTails == {<<WYP1, WYP0, WYP3>>, <<U64(2), Ones64, WYP2>>, <<Zero64, U64(3), U64(5)>>}

\* int64_t keys.
SignedKeys == {-1, -255, 42}

\* Buffer lengths hashed by both hashers.
PairLens == {0, 3, 17, 49}

PairInit ==
    /\ \E ps \in SecretSamples, same \in BOOLEAN, t \in PairTails :
          /\ LET w0 == IF same THEN ps[1] ELSE WYP2
             IN twin = [secret |-> hash_imp_secret(<<w0>> \o t)]
          /\ ctor = [kind |-> "secret", arg |-> ps]
          /\ secret = hash_imp_secret(ps)
    /\ secret0 = secret
    /\ memo = NoRet
    /\ ret = NoRet
    /\ LITTLE \in BOOLEAN /\ SWAPDEF = "portable"
    /\ state = Zero64 /\ seed0 = Zero64 /\ ndraws = 0 /\ pc = "ready"
    /\ vec = <<>> /\ NDEBUG = FALSE
    /\ outs = <<>> /\ threads = <<>> /\ sync = <<>>

\* Both hashers returned for the key: r from the first, r2 from the second.
\* memo keeps the call before.
Paired(op, r, r2, key) ==
    /\ secret' = r.secret
    /\ twin' = [secret |-> r2.secret]
    /\ memo' = [ret EXCEPT !.a = <<>>]
    /\ ret' = [op |-> op, ok |-> TRUE, val |-> r.val, a |-> key, b |-> r2.val]
    /\ UNCHANGED <<state, seed0, ndraws, pc, vec, NDEBUG, LITTLE, SWAPDEF, outs, secret0,
                   ctor, threads, sync>>

\* wy::hash<uint64_t> h1(s1), h2(s2); h1(x); h2(x)
PairNumber ==
    \E x \in HashNumbers :
        Paired("hash_u64", hash_u64(secret, x), hash_u64(twin.secret, x), x)

\* wy::hash<int64_t> h1(s1), h2(s2); h1(n); h2(n)
PairSigned ==
    \E n \in SignedKeys :
        Paired("hash_i64", hash_i64(secret, n), hash_i64(twin.secret, n), n)

\* h1.wyhash(data, len); h2.wyhash(data, len)
PairBytes ==
    \E n \in PairLens :
        Paired("hash_bytes", hash_imp_wyhash(secret, Buffer(n), LITTLE),
               hash_imp_wyhash(twin.secret, Buffer(n), LITTLE), n)

PairNext ==
    \/ PairNumber
    \/ PairSigned
    \/ PairBytes

PairSpec == PairInit /\ [][PairNext]_vars

\* Words 1..3 of the two secrets all differ.
TailsDiffer == \A i \in 2..4 : secret[i] # twin.secret[i]

\* C30: the 64-bit integer hash depends on the secret only through its
\* first word.  Two hashers whose secrets agree in word 0 and differ in
\* words 1..3 return equal digests for every uint64_t and int64_t key, and
\* the digest is wyhash64 of the key and word 0.
C30_IntegerHashUsesWordZero ==
    (/\ ret.op \in {"hash_u64", "hash_i64"}
     /\ secret[1] = twin.secret[1]
     /\ TailsDiffer) =>
        /\ ret.val = ret.b
        /\ ret.op = "hash_u64" => ret.val = wyhash64(ret.a, secret[1])
        /\ ret.op = "hash_i64" => ret.val = wyhash64(to_uint64(ret.a), secret[1])

\* An int64_t key hashed alike by both, after a byte buffer they hashed
\* differently.
C30_Witness ==
    /\ ret.op = "hash_i64" /\ ret.a = -1
    /\ secret[1] = twin.secret[1] /\ TailsDiffer
    /\ ret.val = ret.b
    /\ memo.op = "hash_bytes" /\ memo.val # memo.b

=============================================================================
